---- MODULE Spec2Model ----
(***************************************************************************)
(* Verification model of the BN_Volatility indicator core.                 *)
(*                                                                         *)
(* Floating point quantities are modelled by exact integers:               *)
(*   - seconds, slopes ($/s), prices ($) and OFI are integers;             *)
(*   - slope_threshold_ratio is a percentage (25 means 0.25), and the      *)
(*     price-fallback comparison is carried out in hundredths of a dollar, *)
(*     so (1 - ratio) * |slope| * elapsed is exact.                        *)
(* An Option<T> is a record with a boolean field "some".                   *)
(***************************************************************************)
EXTENDS Integers, Sequences, FiniteSets, TLC

VARIABLES
    tsm,    \* the TrendStateMachine
    dc,     \* the DepthCalculator
    dh,     \* history of the DepthCalculator: has a valid book been accepted
    ih,     \* arguments of the last calculate_impact_price call of ImpactPrice
    vol,    \* the InstantVolatilityIndicator
    now_ms, \* the wall clock read by SystemTime::now()
    vres,   \* the VolatilityResult of the last get_volatility call
    vw,     \* the VwapCalculator
    vwg,    \* its build (overflow checks), whether it panicked, the trades
            \* received in the open window, whether every trade so far
            \* had a positive timestamp not before the start of its window,
            \* and the points flushed so far, in flush order
    pf,     \* the PriceFitter, the series built so far, and its last fit call
    kl,      \* the KlineManager, its last find_max_impact_candle call, and
            \* whether a candle has been evicted from the history
    hs,      \* the VolatilityStats, the samples recorded since the last report, and the last report
    tel,      \* the TelemetryServer, its channel, the send calls made, and the connection tasks
    rc      \* run_connection: whether it is running, the trades handled,
            \* its locals (what they held when it returned, while it is not
            \* running), when it last dispatched an alert of each kind, and
            \* when it last returned

vars == <<tsm, dc, dh, ih, vol, now_ms, vres, vw, vwg, pf, kl, hs, tel, rc>>

\* The variables a component's operations leave alone
OutsideTrend == <<dc, dh, ih, vol, now_ms, vres, vw, vwg, pf, kl, hs, tel, rc>>
OutsideDepth == <<tsm, vol, now_ms, vres, vw, vwg, pf, kl, hs, tel, rc>>
OutsideVol == <<tsm, dc, dh, ih, vw, vwg, pf, kl, hs, tel, rc>>
OutsideVwap == <<tsm, dc, dh, ih, vol, now_ms, vres, pf, kl, hs, tel, rc>>
OutsideFit == <<tsm, dc, dh, ih, vol, now_ms, vres, vw, vwg, kl, hs, tel, rc>>
OutsideKline == <<tsm, dc, dh, ih, vol, now_ms, vres, vw, vwg, pf, hs, tel, rc>>
OutsideStats == <<tsm, dc, dh, ih, vol, now_ms, vres, vw, vwg, pf, kl, tel, rc>>
OutsideTelemetry == <<tsm, dc, dh, ih, vol, now_ms, vres, vw, vwg, pf, kl, hs, rc>>
OutsideConn == <<tsm, dc, dh, ih, vres, vw, vwg, pf, kl, hs, tel>>

(***************************************************************************)
(* Small helpers                                                           *)
(***************************************************************************)
Abs(x) == IF x < 0 THEN -x ELSE x

\* f64::clamp(self, min, max); the standard library requires min <= max
clamp(x, lo, hi) == IF x < lo THEN lo ELSE IF x > hi THEN hi ELSE x

Max2(a, b) == IF a > b THEN a ELSE b
Min2(a, b) == IF a < b THEN a ELSE b

\* Sum of f[x] over x in S
RECURSIVE SumF(_, _)
SumF(f, S) ==
    IF S = {} THEN 0
    ELSE LET x == CHOOSE y \in S : TRUE IN f[x] + SumF(f, S \ {x})

\* Option<FitResult> (None) of PriceFitter::fit
NoFitResult ==
    [some |-> FALSE, panicked |-> FALSE, slope |-> <<0, 1>>,
     intercept |-> <<0, 1>>, r_squared |-> <<0, 1>>, is_valid |-> FALSE,
     current_price |-> <<0, 1>>]

\* PriceFitter::new; window_secs in milliseconds, min_r2 as <<num, den>>
PriceFitter_new(window_ms, min_points, min_r2) ==
    [window_ms |-> window_ms, min_points |-> min_points, min_r2 |-> min_r2]

\* A fitter that has not been called
IdleFit ==
    [fitter |-> PriceFitter_new(1000, 2, <<1, 1>>), series |-> <<>>,
     current_ts_ms |-> 0, res |-> NoFitResult]

\* Option<Kline> (None)
NoKline ==
    [some |-> FALSE, open_time |-> 0, open |-> 0, high |-> 0, low |-> 0,
     close |-> 0, volume |-> 0]

\* KlineManager::new
KlineManager_new(history_limit) ==
    [current |-> NoKline, history |-> <<>>, history_limit |-> history_limit]

\* No find_max_impact_candle call yet
NoLookup == [lookback_secs |-> 0, current_sec |-> 0, ret |-> NoKline]

\* A manager that has seen no trade
IdleKline ==
    [mgr |-> KlineManager_new(2), lookup |-> NoLookup, evicted |-> FALSE]

\* VolatilityStats::new; step in ten-thousandths (100 is 0.01)
VolatilityStats_new(step, bucket_count) ==
    [buckets |-> [i \in 1..bucket_count |-> 0], count |-> 0, step |-> step]

\* No report generated yet
NoReport ==
    [generated |-> FALSE, total |-> 0, lines |-> <<>>, no_data |-> FALSE,
     hidden |-> 0]

\* Statistics that have recorded nothing
IdleStats ==
    [stats |-> VolatilityStats_new(100, 10), recorded |-> <<>>,
     report |-> NoReport, panicked |-> FALSE]

\* Requested capacity of the broadcast channel (2000 in the code, scaled down)
ChannelCapacity == 3

\* The connection tasks spawned by the accept loop
Conns == {1, 2}

\* usize::next_power_of_two, for the capacities used here
next_power_of_two(n) ==
    CHOOSE p \in {1, 2, 4, 8, 16} :
        p >= n /\ \A q \in {1, 2, 4, 8, 16} : q >= n => p <= q

\* broadcast::channel(capacity) once the receiver returned with the sender
\* has been dropped: the buffer has the capacity rounded up to a power of
\* two.  log holds every value stored, in order; the value at position p
\* (from 0) is log[p + 1]
broadcast_channel(capacity) ==
    [pos |-> 0, rx_cnt |-> 0, buffer_len |-> next_power_of_two(capacity),
     log |-> <<>>]

\* A connection that has not been accepted
NoConn ==
    [pc |-> "absent", next |-> 0, msg |-> 0, sub_at |-> 0, lagged |-> FALSE,
     forwarded |-> <<>>]

\* TelemetryServer::new; listening is whether the listener task could bind
TelemetryServer_new(enabled, listening) ==
    [tx |-> broadcast_channel(ChannelCapacity), enabled |-> enabled,
     listening |-> listening, calls |-> 0, pc |-> "idle", packet |-> 0,
     serialized |-> {}, skipped |-> {}, conns |-> [c \in Conns |-> NoConn]]

\* A disabled server
IdleTelemetry == TelemetryServer_new(FALSE, FALSE)

\* Option<Instant> (None)
NoInstant == [some |-> FALSE, t |-> 0]

\* TrendIndicator::new; vwap_bias_threshold as <<num, den>>
TrendIndicator_new(window_size, cvd_threshold, vwap_bias_threshold) ==
    [window_size |-> window_size, trades |-> <<>>, sum_buy_vol |-> 0,
     sum_sell_vol |-> 0, sum_price_vol |-> 0, sum_vol |-> 0,
     cvd_threshold |-> cvd_threshold,
     vwap_bias_threshold |-> vwap_bias_threshold]

\* The MonitorConfig handed to run_connection: the alert threshold in
\* percent, cooldown_secs, the histogram interval in seconds, its step in
\* millionths and its bucket count, and the trend settings
MonitorConfig ==
    [threshold |-> 30, cooldown_secs |-> 2,
     histogram |-> [interval |-> 2, step |-> 10000, buckets |-> 3],
     trend |-> [enabled |-> TRUE, window_size |-> 2,
                imbalance_threshold |-> 1,
                vwap_bias_threshold |-> <<1, 1000>>]]

\* The candle history of run_connection holds 10 candles
KlineHistoryLen == 10

\* The locals run_connection sets up before its loop, at time now
run_connection_locals(cfg, now) ==
    [stats |-> VolatilityStats_new(cfg.histogram.step, cfg.histogram.buckets),
     trend_calc |-> TrendIndicator_new(cfg.trend.window_size,
                                       cfg.trend.imbalance_threshold,
                                       cfg.trend.vwap_bias_threshold),
     last_hist_time |-> now,
     last_alert_time |-> NoInstant,
     last_trend_alert_time |-> NoInstant,
     current_kline |-> NoKline,
     kline_history |-> <<>>]

\* No connection has been made yet
IdleConn ==
    [connected |-> FALSE, events |-> 0,
     loc |-> run_connection_locals(MonitorConfig, 0),
     sent |-> [vol |-> NoInstant, trend |-> NoInstant],
     returned |-> NoInstant]

(***************************************************************************)
(* TrendStateMachine (src/src/indicators/trend_state.rs)                   *)
(***************************************************************************)
SlopeHistoryCap == 10
WeakExitMinElapsed == 5
WeakCountLimit == 5

\* Largest timestamp (seconds) supplied to update
MaxTime == 10

Times == {0, 5, MaxTime}
Slopes == {-2, 2}
Ofis == {-2, 2}
LatestPrices == {99, 100, 101}

\* Option<&FitResult>: None, or a fit whose line ends at current_price 100
NoFit == [some |-> FALSE, slope |-> 0, intercept |-> 0, is_valid |-> FALSE,
          current_price |-> 0]

SomeFit(s, v) == [some |-> TRUE, slope |-> s, intercept |-> 100 - 5 * s,
                  is_valid |-> v, current_price |-> 100]

Fits == {NoFit} \cup {SomeFit(s, v) : s \in Slopes, v \in BOOLEAN}

\* TrendConfig values handed to TrendStateMachine::new
TrendConfig(st, oc, cd, ratio, minfb, maxfb, prot, weak) ==
    [slope_threshold |-> st, ofi_confirm_threshold |-> oc, cooldown_secs |-> cd,
     slope_threshold_ratio |-> ratio, min_price_fallback |-> minfb,
     max_price_fallback |-> maxfb, entry_protection_secs |-> prot,
     slope_weak_threshold |-> weak]

\* (slope_threshold, ofi_confirm_threshold, cooldown_secs,
\*  slope_threshold_ratio %, min_price_fallback, max_price_fallback,
\*  entry_protection_secs, slope_weak_threshold); thresholds are not negative
\* and min_price_fallback <= max_price_fallback.  In the last two the slopes
\* (resp. the OFI values) supplied lie exactly on the entry threshold.
TrendConfigs ==
    { TrendConfig(1, 1, 5, 25, 10, 12, 5, 2),
      TrendConfig(1, 1, 10, 0, 1, 35, 10, 1),
      TrendConfig(2, 1, 5, 25, 10, 35, 5, 1),
      TrendConfig(1, 2, 5, 25, 10, 35, 5, 1) }

TrendStateMachine_new(config) ==
    [state |-> "Scanning", direction |-> "Neutral",
     entry_slope |-> 0, entry_intercept |-> 0, entry_ts_sec |-> 0,
     cooldown_start_ts |-> 0,
     cooldown_secs |-> config.cooldown_secs,
     slope_threshold |-> config.slope_threshold,
     ofi_confirm_threshold |-> config.ofi_confirm_threshold,
     slope_threshold_ratio |-> config.slope_threshold_ratio,
     min_price_fallback |-> config.min_price_fallback,
     max_price_fallback |-> config.max_price_fallback,
     entry_protection_secs |-> config.entry_protection_secs,
     slope_history |-> <<>>,
     slope_weak_threshold |-> config.slope_weak_threshold]

enter_position(m, direction, fit, ts_sec) ==
    [m EXCEPT !.state = "Holding", !.direction = direction,
              !.entry_slope = fit.slope,
              !.entry_intercept = fit.current_price,
              !.entry_ts_sec = ts_sec,
              !.slope_history = <<>>]

\* Variant of exit_position that forgets to reset the direction
exit_position_keep_direction(m, ts_sec) ==
    [m EXCEPT !.state = "Cooldown", !.cooldown_start_ts = ts_sec,
              !.slope_history = <<>>]

exit_position(m, ts_sec) ==
    [m EXCEPT !.state = "Cooldown", !.cooldown_start_ts = ts_sec,
              !.direction = "Neutral", !.slope_history = <<>>]

\* Variant of the Cooldown arm that needs strictly more than cooldown_secs
update_Cooldown_strict(m, current_ts_sec) ==
    IF current_ts_sec - m.cooldown_start_ts > m.cooldown_secs
    THEN [m EXCEPT !.state = "Scanning"]
    ELSE m

\* Cooldown arm of update
update_Cooldown(m, current_ts_sec) ==
    IF current_ts_sec - m.cooldown_start_ts >= m.cooldown_secs
    THEN [m EXCEPT !.state = "Scanning"]
    ELSE m

\* Variant of the Scanning arm whose comparisons include the thresholds
update_Scanning_inclusive(m, current_ts_sec, fit_5s, cum_ofi) ==
    IF ~(fit_5s.some /\ fit_5s.is_valid) THEN m
    ELSE IF fit_5s.slope >= m.slope_threshold /\ cum_ofi >= m.ofi_confirm_threshold
         THEN enter_position(m, "Long", fit_5s, current_ts_sec)
    ELSE IF fit_5s.slope <= -m.slope_threshold /\ cum_ofi <= -m.ofi_confirm_threshold
         THEN enter_position(m, "Short", fit_5s, current_ts_sec)
    ELSE m

\* Scanning arm of update
update_Scanning(m, current_ts_sec, fit_5s, cum_ofi) ==
    IF ~(fit_5s.some /\ fit_5s.is_valid) THEN m
    ELSE IF fit_5s.slope > m.slope_threshold /\ cum_ofi > m.ofi_confirm_threshold
         THEN enter_position(m, "Long", fit_5s, current_ts_sec)
    ELSE IF fit_5s.slope < -m.slope_threshold /\ cum_ofi < -m.ofi_confirm_threshold
         THEN enter_position(m, "Short", fit_5s, current_ts_sec)
    ELSE m

\* slope_history.push_back(slope); pop_front() when longer than 10
push_slope(h, slope) ==
    LET h1 == Append(h, slope)
    IN IF Len(h1) > SlopeHistoryCap THEN Tail(h1) ELSE h1

\* should_exit of the price-fallback rule, evaluated after the protection
\* period; both sides of the comparison are multiplied by 100
should_exit(m, time_elapsed, latest_price) ==
    LET fitted_price == m.entry_intercept + m.entry_slope * time_elapsed
        raw_threshold == (100 - m.slope_threshold_ratio) * Abs(m.entry_slope)
                           * time_elapsed
        threshold == clamp(raw_threshold, 100 * m.min_price_fallback,
                           100 * m.max_price_fallback)
    IN CASE m.direction = "Long" ->
              100 * latest_price < 100 * fitted_price - threshold
         [] m.direction = "Short" ->
              100 * latest_price > 100 * fitted_price + threshold
         [] OTHER -> FALSE

\* slope_history.iter().filter(..).count(), by direction
weak_count(m) ==
    LET h == m.slope_history
    IN CASE m.direction = "Long" ->
              Cardinality({i \in 1..Len(h) : h[i] < m.slope_weak_threshold})
         [] m.direction = "Short" ->
              Cardinality({i \in 1..Len(h) : h[i] > -m.slope_weak_threshold})
         [] OTHER -> 0

\* Variant of the Holding arm that takes a fresh entry signal as a new entry
update_Holding_reenter(m, current_ts_sec, fit_5s, latest_price) ==
    IF ~fit_5s.some THEN m
    ELSE IF fit_5s.is_valid /\ Abs(fit_5s.slope) > m.slope_threshold
    THEN enter_position(m, m.direction, fit_5s, current_ts_sec)
    ELSE [m EXCEPT !.slope_history = push_slope(@, fit_5s.slope)]

\* Variant of the Holding arm without the entry protection period
update_Holding_unprotected(m, current_ts_sec, fit_5s, latest_price) ==
    IF ~fit_5s.some THEN m
    ELSE
      LET m1 == [m EXCEPT !.slope_history = push_slope(@, fit_5s.slope)]
          time_elapsed == current_ts_sec - m.entry_ts_sec
      IN IF should_exit(m1, time_elapsed, latest_price)
         THEN exit_position(m1, current_ts_sec)
         ELSE IF time_elapsed >= WeakExitMinElapsed
                 /\ Len(m1.slope_history) >= SlopeHistoryCap
                 /\ weak_count(m1) > WeakCountLimit
         THEN exit_position(m1, current_ts_sec)
         ELSE m1

\* Variant of the Holding arm that exits on 5 weak slopes already
update_Holding_weak5(m, current_ts_sec, fit_5s, latest_price) ==
    IF ~fit_5s.some THEN m
    ELSE
      LET m1 == [m EXCEPT !.slope_history = push_slope(@, fit_5s.slope)]
          time_elapsed == current_ts_sec - m.entry_ts_sec
      IN IF time_elapsed >= m.entry_protection_secs
            /\ should_exit(m1, time_elapsed, latest_price)
         THEN exit_position(m1, current_ts_sec)
         ELSE IF time_elapsed >= WeakExitMinElapsed
                 /\ Len(m1.slope_history) >= SlopeHistoryCap
                 /\ weak_count(m1) >= WeakCountLimit
         THEN exit_position(m1, current_ts_sec)
         ELSE m1

\* Variant of the Holding arm that, like the Scanning arm, ignores a fit
\* that is not valid
update_Holding_valid_only(m, current_ts_sec, fit_5s, latest_price) ==
    IF ~fit_5s.some \/ ~fit_5s.is_valid THEN m
    ELSE
      LET m1 == [m EXCEPT !.slope_history = push_slope(@, fit_5s.slope)]
          time_elapsed == current_ts_sec - m.entry_ts_sec
      IN IF time_elapsed >= m.entry_protection_secs
            /\ should_exit(m1, time_elapsed, latest_price)
         THEN exit_position(m1, current_ts_sec)
         ELSE IF time_elapsed >= WeakExitMinElapsed
                 /\ Len(m1.slope_history) >= SlopeHistoryCap
                 /\ weak_count(m1) > WeakCountLimit
         THEN exit_position(m1, current_ts_sec)
         ELSE m1

\* Holding arm of update
update_Holding(m, current_ts_sec, fit_5s, latest_price) ==
    IF ~fit_5s.some THEN m
    ELSE
      LET m1 == [m EXCEPT !.slope_history = push_slope(@, fit_5s.slope)]
          time_elapsed == current_ts_sec - m.entry_ts_sec
      IN IF time_elapsed >= m.entry_protection_secs
            /\ should_exit(m1, time_elapsed, latest_price)
         THEN exit_position(m1, current_ts_sec)
         ELSE IF time_elapsed >= WeakExitMinElapsed
                 /\ Len(m1.slope_history) >= SlopeHistoryCap
                 /\ weak_count(m1) > WeakCountLimit
         THEN exit_position(m1, current_ts_sec)
         ELSE m1

\* Variant of update in which the call that ends the cooldown goes on to scan
update_fallthrough(m, current_ts_sec, fit_5s, cum_ofi, latest_price) ==
    CASE m.state = "Cooldown" ->
           LET m1 == update_Cooldown(m, current_ts_sec)
           IN IF m1.state = "Scanning"
              THEN update_Scanning(m1, current_ts_sec, fit_5s, cum_ofi)
              ELSE m1
      [] m.state = "Scanning" ->
           update_Scanning(m, current_ts_sec, fit_5s, cum_ofi)
      [] m.state = "Holding" ->
           update_Holding(m, current_ts_sec, fit_5s, latest_price)

TrendStateMachine_update(m, current_ts_sec, fit_5s, cum_ofi, latest_price) ==
    CASE m.state = "Cooldown" -> update_Cooldown(m, current_ts_sec)
      [] m.state = "Scanning" ->
           update_Scanning(m, current_ts_sec, fit_5s, cum_ofi)
      [] m.state = "Holding" ->
           update_Holding(m, current_ts_sec, fit_5s, latest_price)

get_state(m) == m.state
get_direction(m) == m.direction
is_holding(m) == m.state = "Holding"

(***************************************************************************)
(* InstantVolatilityIndicator (src/src/indicators/vol.rs)                  *)
(*                                                                         *)
(* Times are milliseconds; dt_secs is kept in thousandths of a second.     *)
(* A log-price, raw_vol and annualized are in millionths.                  *)
(***************************************************************************)
SecondsInYear == 31536000

\* Largest wall-clock time
MaxNow == 3000

Nows == {0, 1000, 2000, MaxNow}
VolPrices == {100, 101}
VolTimes == {0, 1000, 2000}

\* (window_size, stale_threshold_ms, fallback_volatility, expire_threshold_ms)
VolConfigs == { <<2, 1000, 500000, 1500>>, <<3, 1000, 500000, 1500>> }

\* f64::ln, in millionths
Ln(price) ==
    CASE price = 100 -> 4605170 [] price = 101 -> 4615121
      [] price = 102 -> 4624973 [] OTHER -> 0

\* Largest r in lo..hi with r * r <= n
RECURSIVE SqrtSearch(_, _, _)
SqrtSearch(n, lo, hi) ==
    IF lo >= hi THEN lo
    ELSE LET mid == (lo + hi + 1) \div 2
         IN IF mid * mid <= n THEN SqrtSearch(n, mid, hi)
            ELSE SqrtSearch(n, lo, mid - 1)

\* f64::sqrt, rounded down to a whole number
Sqrt(n) == SqrtSearch(n, 0, 46340)

\* u64::saturating_sub
saturating_sub(a, b) == IF a > b THEN a - b ELSE 0

InstantVolatilityIndicator_new(window_size, stale_threshold_ms, fallback_volatility, expire_threshold_ms) ==
    [window_size |-> window_size, prices |-> <<>>,
     seconds_in_year |-> SecondsInYear,
     stale_threshold_ms |-> stale_threshold_ms,
     fallback_volatility |-> fallback_volatility,
     expire_threshold_ms |-> expire_threshold_ms]

\* A buffered PriceData is <<ln_price, timestamp_ms>>.
\* while front is older than expire_threshold_ms { pop_front }
RECURSIVE ExpireFront(_, _, _)
ExpireFront(prices, now, expire_threshold_ms) ==
    IF prices # <<>>
       /\ saturating_sub(now, Head(prices)[2]) > expire_threshold_ms
    THEN ExpireFront(Tail(prices), now, expire_threshold_ms)
    ELSE prices

\* Variant of update that removes every expired entry, wherever it is
InstantVolatilityIndicator_update_retain(v, price, trade_time_ms, now) ==
    LET Fresh(x) == ~(saturating_sub(now, x[2]) > v.expire_threshold_ms)
        pushed == Append(SelectSeq(v.prices, Fresh), <<Ln(price), trade_time_ms>>)
    IN [v EXCEPT !.prices =
                    IF Len(pushed) > v.window_size THEN Tail(pushed) ELSE pushed]

\* update(price, trade_time_ms), with the wall-clock time it reads
InstantVolatilityIndicator_update(v, price, trade_time_ms, now) ==
    LET kept == ExpireFront(v.prices, now, v.expire_threshold_ms)
        pushed == Append(kept, <<Ln(price), trade_time_ms>>)
    IN [v EXCEPT !.prices =
                    IF Len(pushed) > v.window_size THEN Tail(pushed) ELSE pushed]

stale_result(v) ==
    [annualized |-> v.fallback_volatility, raw_vol |-> 0, dt_secs |-> 0,
     duration_ms |-> 0, is_stale |-> TRUE]

\* Sum of the squared differences of consecutive log-prices
diff_sq_sum(prices) ==
    SumF([i \in 1..(Len(prices) - 1) |->
             (prices[i + 1][1] - prices[i][1]) * (prices[i + 1][1] - prices[i][1])],
         1..(Len(prices) - 1))

\* raw_vol * sqrt(seconds_in_year / max(dt_secs, 0.01)); the quotient is taken
\* with dt in hundredths of a second, and sqrt(100 * x) is 10 * sqrt(x)
Annualize(v, raw_vol, duration_ms) ==
    raw_vol * 10 * Sqrt(v.seconds_in_year \div Max2(duration_ms \div 10, 1))

\* Variant of get_volatility that is stale from stale_threshold_ms on
get_volatility_inclusive(v, now) ==
    IF Len(v.prices) < 2 THEN stale_result(v)
    ELSE
      LET latest_ts == v.prices[Len(v.prices)][2]
      IN IF saturating_sub(now, latest_ts) >= v.stale_threshold_ms
         THEN stale_result(v)
         ELSE
           LET count == Len(v.prices) - 1
               raw_vol == Sqrt(diff_sq_sum(v.prices) \div count)
               duration_ms == saturating_sub(latest_ts, v.prices[1][2])
           IN [annualized |-> Annualize(v, raw_vol, duration_ms),
               raw_vol |-> raw_vol, dt_secs |-> duration_ms,
               duration_ms |-> duration_ms, is_stale |-> FALSE]

\* Variant of get_volatility that takes the mean over the number of prices
get_volatility_mean_n(v, now) ==
    IF Len(v.prices) < 2 THEN stale_result(v)
    ELSE
      LET latest_ts == v.prices[Len(v.prices)][2]
      IN IF saturating_sub(now, latest_ts) > v.stale_threshold_ms
         THEN stale_result(v)
         ELSE
           LET raw_vol == Sqrt(diff_sq_sum(v.prices) \div Len(v.prices))
               duration_ms == saturating_sub(latest_ts, v.prices[1][2])
           IN [annualized |-> Annualize(v, raw_vol, duration_ms),
               raw_vol |-> raw_vol, dt_secs |-> duration_ms,
               duration_ms |-> duration_ms, is_stale |-> FALSE]

\* get_volatility(), with the wall-clock time it reads
get_volatility(v, now) ==
    IF Len(v.prices) < 2 THEN stale_result(v)
    ELSE
      LET latest_ts == v.prices[Len(v.prices)][2]
      IN IF saturating_sub(now, latest_ts) > v.stale_threshold_ms
         THEN stale_result(v)
         ELSE
           LET count == Len(v.prices) - 1
               raw_vol == IF count > 0
                          THEN Sqrt(diff_sq_sum(v.prices) \div count)
                          ELSE 0
               first_ts == v.prices[1][2]
               duration_ms == saturating_sub(latest_ts, first_ts)
           IN [annualized |-> Annualize(v, raw_vol, duration_ms),
               raw_vol |-> raw_vol, dt_secs |-> duration_ms,
               duration_ms |-> duration_ms, is_stale |-> FALSE]

is_ready(v) == Len(v.prices) >= v.window_size
can_calculate(v) == Len(v.prices) >= 2

\* No get_volatility call made yet
NoResult == [annualized |-> 0, raw_vol |-> 0, dt_secs |-> 0, duration_ms |-> 0,
             is_stale |-> FALSE]

InitVol ==
    /\ vol \in {InstantVolatilityIndicator_new(c[1], c[2], c[3], c[4]) :
                    c \in VolConfigs}
    /\ now_ms = 0
    /\ vres = NoResult
    /\ rc = IdleConn
    /\ tel = IdleTelemetry
    /\ hs = IdleStats
    /\ kl = IdleKline
    /\ pf = IdleFit
    /\ vw = [window_ms |-> 100, window_start_ms |-> 0, sum_pq |-> 0,
             sum_q |-> 0, last_ts_ms |-> 0, vwap_series |-> <<>>,
             max_series_len |-> 2]
    /\ vwg = [overflow_checks |-> FALSE, panicked |-> FALSE, window |-> <<>>,
              orderly |-> TRUE, flushed |-> <<>>]
    /\ tsm = TrendStateMachine_new(TrendConfig(1, 1, 5, 25, 10, 12, 5, 2))
    /\ dc = [prev_bids |-> <<>>, prev_asks |-> <<>>, last_update_id |-> 0,
             ofi_buffer |-> <<>>, cum_window_ms |-> 1500, decay |-> 800,
             trade_buffer |-> <<>>, last_depth_ts_ms |-> 0,
             impact_price |-> <<0, 1>>, impact_qty |-> 0]
    /\ dh = [valid_seen |-> FALSE]
    /\ ih = [bids |-> <<>>, asks |-> <<>>, target_qty |-> 0]

\* The wall clock moves on
Tick ==
    /\ \E n \in Nows : n > now_ms /\ now_ms' = n
    /\ UNCHANGED <<vol, vres, OutsideVol>>

VolUpdate ==
    /\ \E p \in VolPrices, t \in VolTimes :
          vol' = InstantVolatilityIndicator_update(vol, p, t, now_ms)
    /\ UNCHANGED <<now_ms, vres, OutsideVol>>

GetVolatility ==
    /\ vres' = get_volatility(vol, now_ms)
    /\ UNCHANGED <<vol, now_ms, OutsideVol>>

NextVol == Tick \/ VolUpdate \/ GetVolatility

SpecVol == InitVol /\ [][NextVol]_vars

(***************************************************************************)
(* DepthCalculator (src/src/indicators/calculators.rs)                     *)
(*                                                                         *)
(* Prices are whole dollars, quantities whole units, times milliseconds    *)
(* (the OFI buffer keeps trans_time_ms where the code keeps ts_sec =       *)
(* trans_time_ms / 1000, and the window is compared in milliseconds).      *)
(* mid_price is kept doubled (best_bid + best_ask).  The two exponential   *)
(* weights are fixed-point numbers with three decimals, so a flow and a    *)
(* raw OFI are in thousandths and a cumulative OFI in millionths.          *)
(***************************************************************************)
F64Max == 1000000000
TradeBufferCap == 10000

\* Largest update_id supplied, and most trades held in the trade buffer
MaxUpdateId == 3
MaxTrades == 1

DepthTimes == {1000, 3000}
TradeTimes == {2000, 4000}

\* Depth messages <<bids, asks>>, each side a slice of (price, quantity):
\* no bids, no asks, a valid book, the valid book with a larger bid, and a
\* crossed book
Books ==
    { << <<>>, <<<<101, 1>>>> >>,
      << <<<<100, 1>>>>, <<>> >>,
      << <<<<100, 1>>>>, <<<<101, 1>>>> >>,
      << <<<<100, 2>>>>, <<<<101, 1>>>> >>,
      << <<<<101, 1>>>>, <<<<100, 1>>>> >> }

\* Both sides non-empty and best bid below best ask
ValidBook(bk) ==
    /\ bk[1] # <<>> /\ bk[2] # <<>>
    /\ \A i \in 1..Len(bk[1]) : \A j \in 1..Len(bk[2]) : bk[1][i][1] < bk[2][j][1]

ImpactTargets == {0, 1}

Trades == {<<t, 100, 1, m>> : t \in TradeTimes, m \in BOOLEAN}

\* (p * 100.0) as u64, for a price of whole dollars
price_key(p) == p * 100

\* exp(-0.2 * d) in thousandths, d given in half dollars
ExpWeight(d2) ==
    CASE d2 = 0 -> 1000 [] d2 = 1 -> 905 [] d2 = 2 -> 819 [] d2 = 3 -> 741
      [] d2 = 4 -> 670 [] OTHER -> 0

\* decay.powf(age * 10.0) in thousandths for decay = 0.8, age in milliseconds
DecayWeight(age_ms) ==
    CASE age_ms = 0 -> 1000 [] age_ms = 1000 -> 107 [] age_ms = 2000 -> 12
      [] age_ms = -1000 -> 9313 [] age_ms = -2000 -> 86736
      [] age_ms > 2000 -> 0 [] OTHER -> 86736

NoOfi == [some |-> FALSE, raw_ofi |-> 0, cum_ofi |-> 0, mid_price2 |-> 0]

DepthCalculator_new(cum_window_ms, decay) ==
    [prev_bids |-> <<>>, prev_asks |-> <<>>, last_update_id |-> 0,
     ofi_buffer |-> <<>>, cum_window_ms |-> cum_window_ms, decay |-> decay,
     trade_buffer |-> <<>>, last_depth_ts_ms |-> 0,
     impact_price |-> <<0, 1>>, impact_qty |-> 0]

DepthCalculator_add_trade(d, timestamp_ms, price, qty, is_buyer_maker) ==
    LET b == Append(d.trade_buffer, <<timestamp_ms, price, qty, is_buyer_maker>>)
    IN [d EXCEPT !.trade_buffer =
                     IF Len(b) > TradeBufferCap THEN Tail(b) ELSE b]

\* iter().map(|(p, q)| ((p * 100.0) as u64, q)).collect::<HashMap>():
\* a later entry of the slice replaces an earlier one with the same key
BookMap(side) ==
    [k \in {price_key(side[i][1]) : i \in 1..Len(side)} |->
        LET last == CHOOSE i \in 1..Len(side) :
                       /\ price_key(side[i][1]) = k
                       /\ \A j \in (i + 1)..Len(side) : price_key(side[j][1]) # k
        IN side[last][2]]

\* fold(0.0, f64::max) over the bid prices
BestBid(bids) ==
    IF bids = <<>> THEN 0
    ELSE Max2(0, CHOOSE p \in {bids[i][1] : i \in 1..Len(bids)} :
                    \A j \in 1..Len(bids) : bids[j][1] <= p)

\* fold(f64::MAX, f64::min) over the ask prices
BestAsk(asks) ==
    IF asks = <<>> THEN F64Max
    ELSE Min2(F64Max, CHOOSE p \in {asks[i][1] : i \in 1..Len(asks)} :
                         \A j \in 1..Len(asks) : asks[j][1] >= p)

MapGet(m, k) == IF k \in DOMAIN m THEN m[k] ELSE 0

\* Quantity per price key of the buffered trades with the given maker flag
\* whose time lies in (last_depth_ts_ms, trans_time_ms]
Slice(buf, last_ts, trans_time_ms, maker) ==
    LET in == {i \in 1..Len(buf) :
                  /\ buf[i][1] > last_ts /\ buf[i][1] <= trans_time_ms
                  /\ buf[i][4] = maker}
    IN [k \in {price_key(buf[i][2]) : i \in in} |->
          SumF([i \in in |-> IF price_key(buf[i][2]) = k THEN buf[i][3] ELSE 0],
               in)]

\* Variant of the drain loop that also keeps the trades it has attributed
TradesToKeep_all(buf, trans_time_ms, last_ts) ==
    LET Later(x) == x[1] > last_ts
    IN SelectSeq(buf, Later)

\* Trades left in the buffer for the next tick
TradesToKeep(buf, trans_time_ms, last_ts) ==
    LET Later(x) == x[1] > last_ts /\ x[1] > trans_time_ms
    IN SelectSeq(buf, Later)

calculate_net_limit_flow(prev_book, curr_book, trades, mid_price2) ==
    LET all_prices == DOMAIN prev_book \cup DOMAIN curr_book \cup DOMAIN trades
        term == [k \in all_prices |->
                   LET p == k \div 100
                       net_change == (MapGet(curr_book, k) - MapGet(prev_book, k))
                                       + MapGet(trades, k)
                   IN IF net_change # 0
                      THEN net_change * ExpWeight(Abs(2 * p - mid_price2))
                      ELSE 0]
    IN SumF(term, all_prices)

\* while front.t < cutoff { pop_front }
RECURSIVE PruneFront(_, _)
PruneFront(buf, cutoff_ms) ==
    IF buf # <<>> /\ Head(buf)[1] < cutoff_ms
    THEN PruneFront(Tail(buf), cutoff_ms)
    ELSE buf

CumOfi(buf, ts_ms) ==
    SumF([i \in 1..Len(buf) |-> buf[i][2] * DecayWeight(ts_ms - buf[i][1])],
         1..Len(buf))

get_cum_ofi(d) ==
    IF d.ofi_buffer # <<>>
    THEN CumOfi(d.ofi_buffer, d.ofi_buffer[Len(d.ofi_buffer)][1])
    ELSE 0

get_impact_price(d) == d.impact_price

\* Variant of update_depth that lets the last accepted update_id in again
update_depth_accept_equal(d, update_id, trans_time_ms, bids, asks) ==
    IF update_id < d.last_update_id THEN [dc |-> d, ret |-> NoOfi]
    ELSE
      LET curr_bids == BookMap(bids)
          curr_asks == BookMap(asks)
          stored == [d EXCEPT !.last_update_id = update_id,
                              !.prev_bids = curr_bids, !.prev_asks = curr_asks,
                              !.last_depth_ts_ms = trans_time_ms]
      IN IF BestBid(bids) <= 0 \/ BestAsk(asks) >= F64Max
            \/ DOMAIN d.prev_bids = {}
         THEN [dc |-> stored, ret |-> NoOfi]
         ELSE [dc |-> stored,
               ret |-> [some |-> TRUE, raw_ofi |-> 0, cum_ofi |-> 0,
                        mid_price2 |-> BestBid(bids) + BestAsk(asks)]]

\* Variant of update_depth that records the update_id and the time of a call
\* before it looks at the update_id
update_depth_store_first(d, update_id, trans_time_ms, bids, asks) ==
    [dc |-> [d EXCEPT !.last_update_id = update_id,
                      !.last_depth_ts_ms = trans_time_ms],
     ret |-> NoOfi]

\* No trade attributed to a call
NoSlices == [bids |-> <<>>, asks |-> <<>>]

\* update_depth: the new engine state, the returned Option, and the
\* quantities slice_bids and slice_asks the call attributed to its tick
update_depth(d, update_id, trans_time_ms, bids, asks) ==
    IF update_id <= d.last_update_id
    THEN [dc |-> d, ret |-> NoOfi, att |-> NoSlices]
    ELSE
      LET d1 == [d EXCEPT !.last_update_id = update_id]
          curr_bids == BookMap(bids)
          curr_asks == BookMap(asks)
          best_bid == BestBid(bids)
          best_ask == BestAsk(asks)
          stored == [d1 EXCEPT !.prev_bids = curr_bids, !.prev_asks = curr_asks,
                               !.last_depth_ts_ms = trans_time_ms]
      IN IF best_bid <= 0 \/ best_ask >= F64Max
         THEN [dc |-> stored, ret |-> NoOfi, att |-> NoSlices]
         ELSE IF DOMAIN d1.prev_bids = {}
         THEN [dc |-> stored, ret |-> NoOfi, att |-> NoSlices]
         ELSE
           LET mid_price2 == best_bid + best_ask
               slice_bids == Slice(d1.trade_buffer, d1.last_depth_ts_ms,
                                   trans_time_ms, TRUE)
               slice_asks == Slice(d1.trade_buffer, d1.last_depth_ts_ms,
                                   trans_time_ms, FALSE)
               b_flow == calculate_net_limit_flow(d1.prev_bids, curr_bids,
                                                  slice_asks, mid_price2)
               a_flow == calculate_net_limit_flow(d1.prev_asks, curr_asks,
                                                  slice_bids, mid_price2)
               raw_ofi == b_flow - a_flow
               pushed == Append(d1.ofi_buffer, <<trans_time_ms, raw_ofi>>)
               pruned == PruneFront(pushed, trans_time_ms - d1.cum_window_ms)
           IN [dc |-> [stored EXCEPT
                          !.trade_buffer = TradesToKeep(d1.trade_buffer,
                                              trans_time_ms, d1.last_depth_ts_ms),
                          !.ofi_buffer = pruned],
               ret |-> [some |-> TRUE, raw_ofi |-> raw_ofi,
                        cum_ofi |-> CumOfi(pruned, trans_time_ms),
                        mid_price2 |-> mid_price2],
               att |-> [bids |-> slice_bids, asks |-> slice_asks]]

\* Greatest common divisor, to keep a quotient in lowest terms
RECURSIVE Gcd(_, _)
Gcd(a, b) == IF b = 0 THEN a ELSE Gcd(b, a % b)

\* The quotient n / d (d > 0) as <<numerator, denominator>> in lowest terms
Quot(n, d) == LET g == Gcd(Abs(n), d) IN <<n \div g, d \div g>>

\* iter().map(|(_, q)| q).sum()
TotalQty(side) == SumF([i \in 1..Len(side) |-> side[i][2]], 1..Len(side))

\* Variant of the sort that leaves the levels in the order received
SortByPrice_unsorted(side, ascending) == side

\* Stable sort of a slice by price, ascending or descending
RECURSIVE SortByPrice(_, _)
SortByPrice(side, ascending) ==
    IF side = <<>> THEN <<>>
    ELSE LET first == CHOOSE i \in 1..Len(side) :
                        /\ \A j \in 1..Len(side) :
                              IF ascending THEN side[i][1] <= side[j][1]
                                           ELSE side[i][1] >= side[j][1]
                        /\ \A j \in 1..(i - 1) : side[j][1] # side[i][1]
             rest == [k \in 1..(Len(side) - 1) |->
                        IF k < first THEN side[k] ELSE side[k + 1]]
         IN <<side[first]>> \o SortByPrice(rest, ascending)

\* Sum of price * take over the sorted levels until `remaining` is used up
RECURSIVE Sweep(_, _)
Sweep(sorted, remaining) ==
    IF sorted = <<>> THEN 0
    ELSE LET take == Min2(Head(sorted)[2], remaining)
         IN Head(sorted)[1] * take
              + (IF remaining - take <= 0 THEN 0
                 ELSE Sweep(Tail(sorted), remaining - take))

\* Variant of calculate_impact_price that returns early on the target alone
\* and stores a zero result when a side has no quantity
calculate_impact_price_reset(d, bids, asks, target_qty) ==
    LET actual_qty == Min2(Min2(target_qty, TotalQty(bids)), TotalQty(asks))
    IN IF target_qty <= 0 THEN d
       ELSE IF actual_qty <= 0
       THEN [d EXCEPT !.impact_price = <<0, 1>>, !.impact_qty = 0]
       ELSE [d EXCEPT !.impact_price =
                         Quot(Sweep(SortByPrice(asks, TRUE), actual_qty)
                                + Sweep(SortByPrice(bids, FALSE), actual_qty),
                              2 * actual_qty),
                      !.impact_qty = actual_qty]

\* impact_price is the exact quotient (buy_impact + sell_impact) / 2
calculate_impact_price(d, bids, asks, target_qty) ==
    LET bid_total == TotalQty(bids)
        ask_total == TotalQty(asks)
        actual_qty == Min2(Min2(target_qty, bid_total), ask_total)
    IN IF actual_qty <= 0 THEN d
       ELSE LET buy_sum == Sweep(SortByPrice(asks, TRUE), actual_qty)
                sell_sum == Sweep(SortByPrice(bids, FALSE), actual_qty)
            IN [d EXCEPT !.impact_price = Quot(buy_sum + sell_sum, 2 * actual_qty),
                         !.impact_qty = actual_qty]

NoImpactCall == [bids |-> <<>>, asks |-> <<>>, target_qty |-> 0]

(***************************************************************************)
(* VwapCalculator (src/src/indicators/calculators.rs)                      *)
(*                                                                         *)
(* Prices and quantities are whole numbers; a VWAP price is the quotient   *)
(* sum_pq / sum_q as <<numerator, denominator>> in lowest terms.  A trade  *)
(* is <<price, qty, timestamp_ms>>.                                        *)
(***************************************************************************)
\* Stands for 2^64, the modulus of u64 arithmetic, above every time used
U64Modulus == 2000000000

\* Most trades received within one window
MaxWindowTrades == 2

\* Most points flushed in one run
MaxFlushes == 2

VwapSeriesLens == {1, 2}
VwapCutoffs == {150, 250}

VwapWindowMs == 100
VwapTimes == {0, 100, 200, 300}
VwapTrades == {<<pq[1], pq[2], t>> : pq \in {<<100, 1>>, <<102, 3>>, <<102, 0>>},
                                      t \in VwapTimes}

NoPoint == [some |-> FALSE, price |-> <<0, 1>>, timestamp_ms |-> 0]
SomePoint(price, ts) == [some |-> TRUE, price |-> price, timestamp_ms |-> ts]

VwapCalculator_new(window_ms, max_series_len) ==
    [window_ms |-> window_ms, window_start_ms |-> 0, sum_pq |-> 0, sum_q |-> 0,
     last_ts_ms |-> 0, vwap_series |-> <<>>, max_series_len |-> max_series_len]

\* Variant of flush that drops the new point when the series is full
flush_keep_oldest(v) ==
    IF v.sum_q <= 0 THEN [vw |-> v, ret |-> NoPoint]
    ELSE LET point == SomePoint(Quot(v.sum_pq, v.sum_q), v.last_ts_ms)
             pushed == Append(v.vwap_series, point)
         IN [vw |-> [v EXCEPT !.vwap_series =
                                 IF Len(pushed) > v.max_series_len
                                 THEN SubSeq(pushed, 1, v.max_series_len)
                                 ELSE pushed],
             ret |-> point]

\* flush: the calculator afterwards and the returned Option<VwapPoint>
flush(v) ==
    IF v.sum_q <= 0 THEN [vw |-> v, ret |-> NoPoint]
    ELSE LET point == SomePoint(Quot(v.sum_pq, v.sum_q), v.last_ts_ms)
             pushed == Append(v.vwap_series, point)
         IN [vw |-> [v EXCEPT !.vwap_series =
                                 IF Len(pushed) > v.max_series_len
                                 THEN Tail(pushed) ELSE pushed],
             ret |-> point]

\* timestamp_ms - window_start_ms on u64 when it does not panic
wrapping_sub(a, b) == IF a >= b THEN a - b ELSE U64Modulus - (b - a)

\* add_trade: the calculator afterwards, the returned Option<VwapPoint>, and
\* whether the call panicked.  The subtraction timestamp_ms - window_start_ms
\* panics in a build with overflow checks and wraps in one without.
VwapCalculator_add_trade(v, price, qty, timestamp_ms, overflow_checks) ==
    IF v.window_start_ms = 0
    THEN [vw |-> [v EXCEPT !.window_start_ms = timestamp_ms,
                           !.sum_pq = price * qty, !.sum_q = qty,
                           !.last_ts_ms = timestamp_ms],
          ret |-> NoPoint, panicked |-> FALSE]
    ELSE IF timestamp_ms < v.window_start_ms /\ overflow_checks
    THEN [vw |-> v, ret |-> NoPoint, panicked |-> TRUE]
    ELSE IF wrapping_sub(timestamp_ms, v.window_start_ms) < v.window_ms
    THEN [vw |-> [v EXCEPT !.sum_pq = @ + price * qty, !.sum_q = @ + qty,
                           !.last_ts_ms = timestamp_ms],
          ret |-> NoPoint, panicked |-> FALSE]
    ELSE LET f == flush(v)
         IN [vw |-> [f.vw EXCEPT !.window_start_ms = timestamp_ms,
                                 !.sum_pq = price * qty, !.sum_q = qty,
                                 !.last_ts_ms = timestamp_ms],
             ret |-> f.ret, panicked |-> FALSE]

get_series(v) == v.vwap_series

\* cleanup: pop the front of the series while it is older than the cutoff
RECURSIVE cleanup(_, _)
cleanup(v, cutoff_ms) ==
    IF v.vwap_series # <<>> /\ Head(v.vwap_series).timestamp_ms < cutoff_ms
    THEN cleanup([v EXCEPT !.vwap_series = Tail(@)], cutoff_ms)
    ELSE v

\* The trades of the open window once one more trade has been received: the
\* first trade received opens a window, a trade less than window_ms after the
\* first trade of the open window joins it, any other trade closes it and
\* opens the next
WindowAfter(w, x, window_ms) ==
    IF w = <<>> THEN <<x>>
    ELSE IF x[3] - w[1][3] < window_ms THEN Append(w, x)
    ELSE <<x>>

\* A trade with a positive timestamp that is not before the start of the
\* open window
Orderly(w, x) == x[3] > 0 /\ (w = <<>> \/ x[3] >= w[1][3])

InitVwap ==
    /\ vw \in {VwapCalculator_new(VwapWindowMs, n) : n \in VwapSeriesLens}
    /\ vwg \in {[overflow_checks |-> c, panicked |-> FALSE, window |-> <<>>,
                   orderly |-> TRUE, flushed |-> <<>>] : c \in BOOLEAN}
    /\ vol = InstantVolatilityIndicator_new(2, 1000, 500000, 1500)
    /\ now_ms = 0
    /\ vres = NoResult
    /\ rc = IdleConn
    /\ tel = IdleTelemetry
    /\ hs = IdleStats
    /\ kl = IdleKline
    /\ pf = IdleFit
    /\ tsm = TrendStateMachine_new(TrendConfig(1, 1, 5, 25, 10, 12, 5, 2))
    /\ dc = DepthCalculator_new(1500, 800)
    /\ dh = [valid_seen |-> FALSE]
    /\ ih = NoImpactCall

VwapAddTrade ==
    /\ ~vwg.panicked
    /\ \E x \in VwapTrades :
         LET r == VwapCalculator_add_trade(vw, x[1], x[2], x[3],
                                           vwg.overflow_checks)
             w == WindowAfter(vwg.window, x, vw.window_ms)
         IN /\ Len(w) <= MaxWindowTrades
            /\ r.ret.some => Len(vwg.flushed) < MaxFlushes
            /\ vw' = r.vw
            /\ vwg' = [vwg EXCEPT !.panicked = r.panicked, !.window = w,
                                   !.orderly = @ /\ Orderly(vwg.window, x),
                                   !.flushed = IF r.ret.some
                                               THEN Append(@, r.ret) ELSE @]
    /\ UNCHANGED OutsideVwap

VwapCleanup ==
    /\ ~vwg.panicked
    /\ \E cutoff_ms \in VwapCutoffs : vw' = cleanup(vw, cutoff_ms)
    /\ UNCHANGED <<vwg, OutsideVwap>>

NextVwap == VwapAddTrade \/ VwapCleanup

SpecVwap == InitVwap /\ [][NextVwap]_vars

(***************************************************************************)
(* PriceFitter (src/src/indicators/calculators.rs)                         *)
(*                                                                         *)
(* The series fitted here have whole prices and timestamps that are whole  *)
(* seconds, so timestamp_ms / 1000.0 and every sum of the fit are exact    *)
(* integers; slope, intercept, R2 and current_price are exact quotients    *)
(* <<numerator, denominator>> in lowest terms.                             *)
(***************************************************************************)
\* Most points in a fitted series
MaxPoints == 3

FitTimes == {0, 1000, 2000, 3000}
FitPrices == {100, 101}
FitPoints == {SomePoint(<<p, 1>>, t) : p \in FitPrices, t \in FitTimes}
FitConfigs ==
    { PriceFitter_new(1000, 2, <<1, 1>>),
      PriceFitter_new(2000, 3, <<3, 4>>),
      PriceFitter_new(2000, 1, <<3, 4>>) }

\* p.timestamp_ms as f64 / 1000.0
Secs(ms) == ms \div 1000

\* p.price of a point of the series
PointPrice(pt) == pt.price[1] \div pt.price[2]

\* Sum of f[i] over the indices of a sequence
SumSeq(f) == SumF(f, DOMAIN f)

\* a >= b for quotients with positive denominators
QuotGeq(a, b) == a[1] * b[2] >= b[1] * a[2]

\* The points of the series with timestamp_ms / 1000 >= cutoff
InWindow(series, current_ts_ms, window_ms) ==
    SelectSeq(series, LAMBDA pt : pt.timestamp_ms >= current_ts_ms - window_ms)

\* The least-squares part of fit over the in-window points (at least one).
\* With slope = num / denom, the residual of point i times n * denom is
\* res[i], and ss_tot times n * n is the sum of (n * p[i] - sum_p)^2, so
\* 1 - ss_res / ss_tot is 1 - sum(res[i]^2) / (denom^2 * n^2 * ss_tot).
LeastSquares(f, points) ==
    LET n == Len(points)
        t0 == Secs(points[1].timestamp_ms)
        t == [i \in 1..n |-> Secs(points[i].timestamp_ms) - t0]
        p == [i \in 1..n |-> PointPrice(points[i])]
        sum_t == SumSeq(t)
        sum_p == SumSeq(p)
        sum_tt == SumSeq([i \in 1..n |-> t[i] * t[i]])
        sum_tp == SumSeq([i \in 1..n |-> t[i] * p[i]])
        denom == n * sum_tt - sum_t * sum_t
        num == n * sum_tp - sum_t * sum_p
    IN IF denom = 0 THEN NoFitResult
       ELSE LET res == [i \in 1..n |-> n * denom * p[i] - denom * sum_p
                                        + num * sum_t - n * num * t[i]]
                ss_res == SumSeq([i \in 1..n |-> res[i] * res[i]])
                ss_tot == SumSeq([i \in 1..n |->
                                     (n * p[i] - sum_p) * (n * p[i] - sum_p)])
                r_squared == IF ss_tot > 0
                             THEN Quot(denom * denom * ss_tot - ss_res,
                                       denom * denom * ss_tot)
                             ELSE <<0, 1>>
            IN [some |-> TRUE, panicked |-> FALSE,
                slope |-> Quot(num, denom),
                intercept |-> Quot(denom * sum_p - num * sum_t, n * denom),
                r_squared |-> r_squared,
                is_valid |-> QuotGeq(r_squared, f.min_r2),
                current_price |-> Quot(denom * sum_p - num * sum_t
                                         + n * num * t[n], n * denom)]

\* Variant of fit that takes the window back from the latest point of the
\* series instead of current_ts_ms
fit_from_latest(f, series, current_ts_ms) ==
    LET latest == IF series = <<>> THEN 0
                  ELSE CHOOSE m \in {series[i].timestamp_ms : i \in DOMAIN series} :
                         \A i \in DOMAIN series : series[i].timestamp_ms <= m
        points == InWindow(series, latest, f.window_ms)
    IN IF Len(points) < f.min_points THEN NoFitResult
       ELSE IF points = <<>> THEN [NoFitResult EXCEPT !.panicked = TRUE]
       ELSE LeastSquares(f, points)

\* fit: the Option<FitResult>; indexing points[0] panics when min_points is
\* 0 and no point is in the window
fit(f, series, current_ts_ms) ==
    LET points == InWindow(series, current_ts_ms, f.window_ms)
    IN IF Len(points) < f.min_points THEN NoFitResult
       ELSE IF points = <<>> THEN [NoFitResult EXCEPT !.panicked = TRUE]
       ELSE LeastSquares(f, points)

\* predict: current_price + slope * horizon_secs as a quotient
predict(r, horizon_secs) ==
    Quot(r.current_price[1] * r.slope[2]
           + r.slope[1] * horizon_secs * r.current_price[2],
         r.current_price[2] * r.slope[2])

InitFit ==
    /\ pf \in {[IdleFit EXCEPT !.fitter = f] : f \in FitConfigs}
    /\ vw = VwapCalculator_new(VwapWindowMs, 2)
    /\ vwg = [overflow_checks |-> FALSE, panicked |-> FALSE, window |-> <<>>,
              orderly |-> TRUE, flushed |-> <<>>]
    /\ vol = InstantVolatilityIndicator_new(2, 1000, 500000, 1500)
    /\ now_ms = 0
    /\ vres = NoResult
    /\ rc = IdleConn
    /\ tel = IdleTelemetry
    /\ hs = IdleStats
    /\ kl = IdleKline
    /\ tsm = TrendStateMachine_new(TrendConfig(1, 1, 5, 25, 10, 12, 5, 2))
    /\ dc = DepthCalculator_new(1500, 800)
    /\ dh = [valid_seen |-> FALSE]
    /\ ih = NoImpactCall

\* One more point in the series handed to fit
PushPoint ==
    /\ Len(pf.series) < MaxPoints
    /\ \E pt \in FitPoints : pf' = [pf EXCEPT !.series = Append(@, pt)]
    /\ UNCHANGED OutsideFit

Fit ==
    /\ \E ts \in FitTimes :
         pf' = [pf EXCEPT !.current_ts_ms = ts,
                          !.res = fit(pf.fitter, pf.series, ts)]
    /\ UNCHANGED OutsideFit

NextFit == PushPoint \/ Fit

SpecFit == InitFit /\ [][NextFit]_vars

(***************************************************************************)
(* Kline and KlineManager (src/src/indicators/kline.rs); run_connection    *)
(* (src/src/lib.rs) carries the same synthesis inline with a history of 10 *)
(***************************************************************************)
\* Largest volume a candle accumulates
MaxVolume == 2

KlinePrices == {100, 102}
KlineQtys == {1, 2}
KlineSecs == {1, 2}
KlineLimits == {1, 2}
Lookbacks == {0, 1}

\* Kline::new
Kline_new(time_sec, price, volume) ==
    [some |-> TRUE, open_time |-> time_sec, open |-> price, high |-> price,
     low |-> price, close |-> price, volume |-> volume]

\* Kline::update
Kline_update(k, price, volume) ==
    [k EXCEPT !.close = price,
              !.high = IF price > @ THEN price ELSE @,
              !.low = IF price < @ THEN price ELSE @,
              !.volume = @ + volume]

\* Kline::change
change(k) == k.close - k.open

\* Variant of update that evicts only once the history exceeds its limit
KlineManager_update_late_evict(m, price, volume, trade_time_sec) ==
    IF m.current.some /\ m.current.open_time = trade_time_sec
    THEN [mgr |-> [m EXCEPT !.current = Kline_update(@, price, volume)],
          ret |-> NoKline]
    ELSE IF m.current.some
    THEN [mgr |-> [m EXCEPT
                     !.history = Append(IF Len(@) > m.history_limit
                                        THEN Tail(@) ELSE @, m.current),
                     !.current = Kline_new(trade_time_sec, price, volume)],
          ret |-> m.current]
    ELSE [mgr |-> [m EXCEPT !.current = Kline_new(trade_time_sec, price, volume)],
          ret |-> NoKline]

\* KlineManager::update: the manager afterwards and the returned Option<Kline>
KlineManager_update(m, price, volume, trade_time_sec) ==
    IF m.current.some /\ m.current.open_time = trade_time_sec
    THEN [mgr |-> [m EXCEPT !.current = Kline_update(@, price, volume)],
          ret |-> NoKline]
    ELSE IF m.current.some
    THEN [mgr |-> [m EXCEPT
                     !.history = Append(IF Len(@) >= m.history_limit /\ @ # <<>>
                                        THEN Tail(@) ELSE @, m.current),
                     !.current = Kline_new(trade_time_sec, price, volume)],
          ret |-> m.current]
    ELSE [mgr |-> [m EXCEPT !.current = Kline_new(trade_time_sec, price, volume)],
          ret |-> NoKline]

\* history.iter().chain(current.iter())
Candles(m) ==
    IF m.current.some THEN Append(m.history, m.current) ELSE m.history

\* Variant of find_max_impact_candle that looks at the history only
find_max_impact_candle_history(m, lookback_secs, current_sec) ==
    LET c == SelectSeq(m.history,
                       LAMBDA k : k.open_time >= current_sec - lookback_secs)
    IN IF c = <<>> THEN NoKline
       ELSE c[CHOOSE i \in DOMAIN c :
                /\ \A j \in DOMAIN c : Abs(change(c[j])) <= Abs(change(c[i]))
                /\ \A j \in DOMAIN c :
                     Abs(change(c[j])) = Abs(change(c[i])) => j <= i]

\* find_max_impact_candle; Iterator::max_by returns the last of several
\* maximal elements
find_max_impact_candle(m, lookback_secs, current_sec) ==
    LET c == SelectSeq(Candles(m),
                       LAMBDA k : k.open_time >= current_sec - lookback_secs)
    IN IF c = <<>> THEN NoKline
       ELSE c[CHOOSE i \in DOMAIN c :
                /\ \A j \in DOMAIN c : Abs(change(c[j])) <= Abs(change(c[i]))
                /\ \A j \in DOMAIN c :
                     Abs(change(c[j])) = Abs(change(c[i])) => j <= i]

InitKline ==
    /\ kl \in {[IdleKline EXCEPT !.mgr = KlineManager_new(n)] :
                 n \in KlineLimits}
    /\ pf = IdleFit
    /\ vw = VwapCalculator_new(VwapWindowMs, 2)
    /\ vwg = [overflow_checks |-> FALSE, panicked |-> FALSE, window |-> <<>>,
              orderly |-> TRUE, flushed |-> <<>>]
    /\ vol = InstantVolatilityIndicator_new(2, 1000, 500000, 1500)
    /\ now_ms = 0
    /\ vres = NoResult
    /\ rc = IdleConn
    /\ tel = IdleTelemetry
    /\ hs = IdleStats
    /\ tsm = TrendStateMachine_new(TrendConfig(1, 1, 5, 25, 10, 12, 5, 2))
    /\ dc = DepthCalculator_new(1500, 800)
    /\ dh = [valid_seen |-> FALSE]
    /\ ih = NoImpactCall

KlineUpdate ==
    /\ \E price \in KlinePrices, volume \in KlineQtys, sec \in KlineSecs :
         LET r == KlineManager_update(kl.mgr, price, volume, sec)
         IN /\ r.mgr.current.volume <= MaxVolume
            /\ kl' = [kl EXCEPT !.mgr = r.mgr,
                                 !.evicted = @ \/ (r.ret.some /\
                                     Len(kl.mgr.history) >= kl.mgr.history_limit)]
    /\ UNCHANGED OutsideKline

FindMaxImpactCandle ==
    /\ \E lookback_secs \in Lookbacks, current_sec \in KlineSecs :
         kl' = [kl EXCEPT !.lookup =
                  [lookback_secs |-> lookback_secs, current_sec |-> current_sec,
                   ret |-> find_max_impact_candle(kl.mgr, lookback_secs,
                                                  current_sec)]]
    /\ UNCHANGED OutsideKline

NextKline == KlineUpdate \/ FindMaxImpactCandle

SpecKline == InitKline /\ [][NextKline]_vars

(***************************************************************************)
(* VolatilityStats (src/src/stats.rs) and the reporting cycle of           *)
(* run_connection (src/src/lib.rs)                                         *)
(*                                                                         *)
(* A volatility and the step are whole ten-thousandths (5000 is 0.50), so  *)
(* vol / step truncated is an exact integer division.  buckets[i] of the   *)
(* code is buckets[i + 1] here.                                            *)
(***************************************************************************)
\* Most samples recorded between two reports
MaxSamples == 3

StatsVols == {0, 99, 100, 250, 5000}
StatsConfigs == { <<100, 10>>, <<100, 3>>, <<100, 0>> }

\* Variant of record without the clamp to the last bucket
record_unclamped(h, v) ==
    LET index == v \div h.step
    IN [stats |-> [h EXCEPT !.count = @ + 1,
                            !.buckets = [i \in DOMAIN @ |->
                                           IF i = index + 1 THEN @[i] + 1
                                           ELSE @[i]]],
        panicked |-> index + 1 \notin DOMAIN h.buckets]

\* record: the statistics afterwards and whether the call panicked;
\* (vol / step) as usize truncates a non-negative quotient.  Without any
\* bucket, buckets.len() - 1 panics in a build with overflow checks and wraps
\* to usize::MAX in one without, where buckets[index] then panics.
record(h, v) ==
    IF Len(h.buckets) = 0
    THEN [stats |-> [h EXCEPT !.count = @ + 1], panicked |-> TRUE]
    ELSE LET max_idx == Len(h.buckets) - 1
             index == Min2(v \div h.step, max_idx)
         IN [stats |-> [h EXCEPT !.count = @ + 1, !.buckets[index + 1] = @ + 1],
             panicked |-> FALSE]

generate_report_all_lines(h) ==
    LET nonempty == [i \in DOMAIN h.buckets |-> i - 1]
    IN [generated |-> TRUE, total |-> h.count,
        lines |-> [j \in DOMAIN nonempty |->
                     <<nonempty[j], h.buckets[nonempty[j] + 1],
                       IF h.count > 0
                       THEN Quot(100 * h.buckets[nonempty[j] + 1], h.count)
                       ELSE <<0, 1>>>>],
        no_data |-> \A i \in DOMAIN h.buckets : h.buckets[i] = 0,
        hidden |-> 0]

\* generate_report: the total, one line <<index, count, percentage>> per
\* non-empty bucket (the percentage as a quotient), the no-data line when no
\* bucket has a count, and otherwise the number of empty buckets named in
\* the footer (0 when there is none and the footer is left out)
generate_report(h) ==
    LET nonempty == SelectSeq([i \in DOMAIN h.buckets |-> i - 1],
                              LAMBDA i : h.buckets[i + 1] > 0)
    IN [generated |-> TRUE, total |-> h.count,
        lines |-> [j \in DOMAIN nonempty |->
                     <<nonempty[j], h.buckets[nonempty[j] + 1],
                       IF h.count > 0
                       THEN Quot(100 * h.buckets[nonempty[j] + 1], h.count)
                       ELSE <<0, 1>>>>],
        no_data |-> nonempty = <<>>,
        hidden |-> IF nonempty = <<>> THEN 0
                   ELSE Len(h.buckets) - Len(nonempty)]

\* Variant of the reporting cycle that keeps the statistics
ReportCycle_keep(h) == [stats |-> h, report |-> generate_report(h)]

\* The reporting cycle of run_connection: generate the report, then replace
\* the statistics by new ones with the same step and bucket count
ReportCycle(h) ==
    [stats |-> VolatilityStats_new(h.step, Len(h.buckets)),
     report |-> generate_report(h)]

InitStats ==
    /\ hs \in {[IdleStats EXCEPT !.stats = VolatilityStats_new(c[1], c[2])] :
                 c \in StatsConfigs}
    /\ kl = IdleKline
    /\ pf = IdleFit
    /\ vw = VwapCalculator_new(VwapWindowMs, 2)
    /\ vwg = [overflow_checks |-> FALSE, panicked |-> FALSE, window |-> <<>>,
              orderly |-> TRUE, flushed |-> <<>>]
    /\ vol = InstantVolatilityIndicator_new(2, 1000, 500000, 1500)
    /\ now_ms = 0
    /\ vres = NoResult
    /\ rc = IdleConn
    /\ tel = IdleTelemetry
    /\ tsm = TrendStateMachine_new(TrendConfig(1, 1, 5, 25, 10, 12, 5, 2))
    /\ dc = DepthCalculator_new(1500, 800)
    /\ dh = [valid_seen |-> FALSE]
    /\ ih = NoImpactCall

Record ==
    /\ ~hs.panicked
    /\ Len(hs.recorded) < MaxSamples
    /\ \E v \in StatsVols :
         LET r == record(hs.stats, v)
         IN hs' = [hs EXCEPT !.stats = r.stats, !.panicked = r.panicked,
                             !.recorded = Append(@, v)]
    /\ UNCHANGED OutsideStats

Report ==
    /\ ~hs.panicked
    /\ LET c == ReportCycle(hs.stats)
       IN hs' = [hs EXCEPT !.stats = c.stats, !.recorded = <<>>,
                           !.report = c.report]
    /\ UNCHANGED OutsideStats

NextStats == Record \/ Report

SpecStats == InitStats /\ [][NextStats]_vars

(***************************************************************************)
(* TelemetryServer (src/src/telemetry.rs)                                  *)
(*                                                                         *)
(* The packets handed to send are numbered 1, 2, ... in call order, and a  *)
(* serialized packet is identified by its number.  The broadcast channel   *)
(* is tokio's: a ring of buffer_len slots written at pos mod buffer_len,   *)
(* a count of live receivers, and one cursor per receiver.  send runs on   *)
(* the producer's task, each handle_connection on a task of its own, so    *)
(* the producer's two reads of the channel (receiver_count, then send) are *)
(* separate steps that the connection tasks' steps may come between.       *)
(* A connection task holds a Sender of its own, so recv never reports      *)
(* Closed while the task is alive.                                         *)
(***************************************************************************)

\* Largest number of send calls
MaxSends == 6

\* Sender::receiver_count
receiver_count(tx) == tx.rx_cnt

\* Sender::send: an error, and nothing stored, when no receiver is alive;
\* otherwise the value goes to the slot of pos, over what it held
tx_send(tx, msg) ==
    IF tx.rx_cnt = 0
    THEN [tx |-> tx, ok |-> FALSE]
    ELSE [tx |-> [tx EXCEPT !.pos = @ + 1, !.log = Append(@, msg)],
          ok |-> TRUE]

\* Sender::subscribe: the new receiver starts at the tail
subscribe(tx) ==
    [tx |-> [tx EXCEPT !.rx_cnt = @ + 1], next |-> tx.pos]

\* Dropping a Receiver
drop_rx(tx) == [tx EXCEPT !.rx_cnt = @ - 1]

Oldest_unbounded(tx) == 0

\* Position of the oldest value the ring still holds
Oldest(tx) ==
    IF tx.pos > tx.buffer_len THEN tx.pos - tx.buffer_len ELSE 0

\* Positions whose value is still held for some live receiver that has not
\* read it
Retained(t) ==
    {p \in Oldest(t.tx)..(t.tx.pos - 1) :
        \E c \in Conns : /\ t.conns[c].pc \in {"recv", "socket"}
                         /\ t.conns[c].next <= p}

recv_lag_to_tail(tx, next) ==
    IF next < Oldest(tx)
    THEN [kind |-> "Lagged", missed |-> tx.pos - next, next |-> tx.pos,
          msg |-> 0]
    ELSE IF next < tx.pos
    THEN [kind |-> "Ok", missed |-> 0, next |-> next + 1,
          msg |-> tx.log[next + 1]]
    ELSE [kind |-> "Pending", missed |-> 0, next |-> next, msg |-> 0]

\* Receiver::recv for a receiver whose cursor is next: Lagged when the slot
\* of next has been overwritten, the value at next when there is one, and
\* otherwise the receiver waits
recv(tx, next) ==
    IF next < Oldest(tx)
    THEN [kind |-> "Lagged", missed |-> Oldest(tx) - next,
          next |-> Oldest(tx), msg |-> 0]
    ELSE IF next < tx.pos
    THEN [kind |-> "Ok", missed |-> 0, next |-> next + 1,
          msg |-> tx.log[next + 1]]
    ELSE [kind |-> "Pending", missed |-> 0, next |-> next, msg |-> 0]

TelemetryServer_send_eager(t) ==
    LET id == t.calls + 1
    IN  IF ~t.enabled
        THEN [t EXCEPT !.calls = id]
        ELSE [t EXCEPT !.calls = id, !.serialized = @ \cup {id},
                       !.pc = "publish", !.packet = id]

\* TelemetryServer::send up to serde_json::to_string: nothing is done when
\* the server is disabled or no receiver is alive
TelemetryServer_send(t) ==
    LET id == t.calls + 1
    IN  IF ~t.enabled \/ receiver_count(t.tx) = 0
        THEN [t EXCEPT !.calls = id]
        ELSE [t EXCEPT !.calls = id, !.serialized = @ \cup {id},
                       !.pc = "publish", !.packet = id]

\* The rest of TelemetryServer::send: tx.send, its result ignored
TelemetryServer_publish(t) ==
    [t EXCEPT !.tx = tx_send(t.tx, t.packet).tx, !.pc = "idle",
              !.packet = 0]

\* handle_connection, the handshake: on failure the task returns, on
\* success it subscribes
handshake(t, c, ok) ==
    IF ok
    THEN LET s == subscribe(t.tx)
         IN  [t EXCEPT !.tx = s.tx,
                       !.conns[c] = [@ EXCEPT !.pc = "recv",
                                              !.next = s.next,
                                              !.sub_at = s.next]]
    ELSE [t EXCEPT !.conns[c].pc = "closed"]

\* handle_connection, rx.recv() returning: a value is taken to the socket,
\* a lag is skipped and the loop goes on, and Closed leaves the loop.  recv
\* reports Closed only when every Sender has been dropped, and the task
\* owns one, so that arm is never taken
forward_recv(t, c) ==
    LET r == recv(t.tx, t.conns[c].next)
    IN  IF r.kind = "Ok"
        THEN [t EXCEPT !.conns[c] = [@ EXCEPT !.pc = "socket",
                                              !.next = r.next,
                                              !.msg = r.msg]]
        ELSE IF r.kind = "Lagged"
        THEN [t EXCEPT !.conns[c] = [@ EXCEPT !.pc = "recv",
                                              !.next = r.next,
                                              !.lagged = TRUE]]
        ELSE [t EXCEPT !.tx = drop_rx(t.tx),
                       !.conns[c] = [@ EXCEPT !.pc = "closed"]]

forward_socket_leak(t, c, ok) ==
    IF ok
    THEN [t EXCEPT !.conns[c] = [@ EXCEPT !.pc = "recv", !.msg = 0,
                                          !.forwarded = Append(@, t.conns[c].msg)]]
    ELSE [t EXCEPT !.conns[c] = [@ EXCEPT !.pc = "closed", !.msg = 0]]

forward_socket_shared(t, c, ok) ==
    IF ok
    THEN [t EXCEPT !.conns =
            [d \in Conns |->
               IF d = c
               THEN [t.conns[c] EXCEPT !.pc = "recv", !.msg = 0,
                                       !.forwarded = Append(@, t.conns[c].msg)]
               ELSE IF t.conns[d].pc = "recv" /\ t.conns[d].next < t.conns[c].next
               THEN [t.conns[d] EXCEPT !.next = t.conns[c].next]
               ELSE t.conns[d]]]
    ELSE [t EXCEPT !.tx = drop_rx(t.tx),
                   !.conns[c] = [@ EXCEPT !.pc = "closed", !.msg = 0]]

\* handle_connection, ws_sender.send() returning: the loop goes on after a
\* success and is left, the receiver dropped, after a failure
forward_socket(t, c, ok) ==
    IF ok
    THEN [t EXCEPT !.conns[c] = [@ EXCEPT !.pc = "recv", !.msg = 0,
                                          !.forwarded = Append(@, t.conns[c].msg)]]
    ELSE [t EXCEPT !.tx = drop_rx(t.tx),
                   !.conns[c] = [@ EXCEPT !.pc = "closed", !.msg = 0]]

InitTelemetry ==
    /\ tel \in {TelemetryServer_new(e, l) : e \in BOOLEAN, l \in BOOLEAN}
    /\ hs = IdleStats
    /\ kl = IdleKline
    /\ pf = IdleFit
    /\ vw = VwapCalculator_new(VwapWindowMs, 2)
    /\ vwg = [overflow_checks |-> FALSE, panicked |-> FALSE, window |-> <<>>,
              orderly |-> TRUE, flushed |-> <<>>]
    /\ vol = InstantVolatilityIndicator_new(2, 1000, 500000, 1500)
    /\ now_ms = 0
    /\ vres = NoResult
    /\ rc = IdleConn
    /\ tsm = TrendStateMachine_new(TrendConfig(1, 1, 5, 25, 10, 12, 5, 2))
    /\ dc = DepthCalculator_new(1500, 800)
    /\ dh = [valid_seen |-> FALSE]
    /\ ih = NoImpactCall

\* The producer calls send; skipped keeps the packets handed to send while
\* the server was disabled or no receiver was alive
Send ==
    /\ tel.pc = "idle"
    /\ tel.calls < MaxSends
    /\ tel' = [TelemetryServer_send(tel) EXCEPT
                 !.skipped = IF ~tel.enabled \/ tel.tx.rx_cnt = 0
                             THEN @ \cup {tel.calls + 1} ELSE @]
    /\ UNCHANGED OutsideTelemetry

\* The producer, having serialized the packet, calls tx.send
Publish ==
    /\ tel.pc = "publish"
    /\ tel' = TelemetryServer_publish(tel)
    /\ UNCHANGED OutsideTelemetry

\* The listener accepts a TCP connection and spawns its task
Accept ==
    /\ tel.enabled
    /\ tel.listening
    /\ \E c \in Conns :
         /\ tel.conns[c].pc = "absent"
         /\ tel' = [tel EXCEPT !.conns[c].pc = "handshake"]
    /\ UNCHANGED OutsideTelemetry

\* accept_async returns
Handshake ==
    /\ \E c \in Conns, ok \in BOOLEAN :
         /\ tel.conns[c].pc = "handshake"
         /\ tel' = handshake(tel, c, ok)
    /\ UNCHANGED OutsideTelemetry

\* rx.recv() returns in connection task c
ForwardRecvOf(c) ==
    /\ tel.conns[c].pc = "recv"
    /\ recv(tel.tx, tel.conns[c].next).kind # "Pending"
    /\ tel' = forward_recv(tel, c)
    /\ UNCHANGED OutsideTelemetry

\* rx.recv() returns in a connection task
ForwardRecv == \E c \in Conns : ForwardRecvOf(c)

\* ws_sender.send() returns in connection task c
ForwardSocketOf(c) ==
    /\ tel.conns[c].pc = "socket"
    /\ \E ok \in BOOLEAN : tel' = forward_socket(tel, c, ok)
    /\ UNCHANGED OutsideTelemetry

\* ws_sender.send() returns in a connection task
ForwardSocket == \E c \in Conns : ForwardSocketOf(c)

NextTelemetry ==
    Send \/ Publish \/ Accept \/ Handshake \/ ForwardRecv \/ ForwardSocket

SpecTelemetry == InitTelemetry /\ [][NextTelemetry]_vars

\* The connection task whose progress is assumed
FairConn == 1

\* Connection task FairConn is scheduled whenever it can run and its socket
\* takes what is written to it; nothing is assumed of the producer or of
\* the other connection tasks, which may stall for ever
SpecTelemetryFair ==
    /\ InitTelemetry
    /\ [][NextTelemetry]_vars
    /\ WF_vars(ForwardRecvOf(FairConn))
    /\ WF_vars(ForwardSocketOf(FairConn))

(***************************************************************************)
(* run_connection (src/src/lib.rs) and the reconnect loop of main          *)
(* (src/src/bin/volatility_monitor.rs)                                     *)
(*                                                                         *)
(* One step is one turn of the message loop.  Prices and quantities arrive *)
(* as strings.  Instant::now() and SystemTime::now() are one clock,        *)
(* now_ms.  The volatility engine is vol, which main owns and lends to     *)
(* run_connection; everything else is a local of run_connection.           *)
(* Annualized volatility is in millionths.                                 *)
(***************************************************************************)

\* The pause of main between two connections (5 s in the code, scaled down
\* with the clock)
ReconnectDelayMs == 1000

\* Largest number of aggTrade messages handled, over all connections
MaxEvents == 3

\* aggTrade messages <<price, quantity, event_time, is_buyer_maker>>
ConnTrades ==
    {<<pr, "1", t, FALSE>> : pr \in {"100", "101"}, t \in {1000, 2000}}
      \cup { <<"101", "1", 2000, TRUE>>,
             <<"100", "1", 2000, TRUE>>,
             <<"abc", "1", 2000, FALSE>>,
             <<"100", "", 2000, FALSE>> }

\* str::parse::<f64>, for the strings used here
ParseF64(str) ==
    CASE str = "100" -> [ok |-> TRUE, val |-> 100]
      [] str = "101" -> [ok |-> TRUE, val |-> 101]
      [] str = "1" -> [ok |-> TRUE, val |-> 1]
      [] OTHER -> [ok |-> FALSE, val |-> 0]

\* TrendIndicator::calculate_trend
calculate_trend(ti, current_price) ==
    IF ti.sum_vol = 0 THEN "Neutral"
    ELSE LET net_volume == ti.sum_buy_vol - ti.sum_sell_vol
             \* vwap_bias = (current_price - vwap) / vwap with
             \* vwap = sum_price_vol / sum_vol, compared across the quotients
             bias_num == current_price * ti.sum_vol - ti.sum_price_vol
             thr == ti.vwap_bias_threshold
         IN IF net_volume > ti.cvd_threshold
               /\ bias_num * thr[2] > thr[1] * ti.sum_price_vol
            THEN "Bullish"
            ELSE IF net_volume < -ti.cvd_threshold
                    /\ bias_num * thr[2] < -thr[1] * ti.sum_price_vol
            THEN "Bearish"
            ELSE "Neutral"

\* TrendIndicator::update: the indicator afterwards and the TrendState; a
\* string that does not parse counts as 0.0
TrendIndicator_update(ti, trade) ==
    LET price == ParseF64(trade[1]).val
        qty == ParseF64(trade[2]).val
        is_sell == trade[4]
        added == [ti EXCEPT
                    !.sum_sell_vol = IF is_sell THEN @ + qty ELSE @,
                    !.sum_buy_vol = IF is_sell THEN @ ELSE @ + qty,
                    !.sum_price_vol = @ + price * qty,
                    !.sum_vol = @ + qty,
                    !.trades = Append(@, <<price, qty, is_sell>>)]
        old == Head(added.trades)
        kept == IF Len(added.trades) > ti.window_size
                THEN [added EXCEPT
                        !.trades = Tail(@),
                        !.sum_sell_vol = IF old[3] THEN @ - old[2] ELSE @,
                        !.sum_buy_vol = IF old[3] THEN @ ELSE @ - old[2],
                        !.sum_price_vol = @ - old[1] * old[2],
                        !.sum_vol = @ - old[2]]
                ELSE added
    IN [ti |-> kept, state |-> calculate_trend(kept, price)]

\* Variant of the cooldown test that waits for both kinds of alert
needs_alert_shared(last, other, now, cooldown_secs) ==
    /\ ~last.some \/ (now - last.t) \div 1000 >= cooldown_secs
    /\ ~other.some \/ (now - other.t) \div 1000 >= cooldown_secs

\* match last { None => true, Some(last) =>
\*   now.duration_since(last).as_secs() >= cooldown_secs }
\* for one kind of alert; other is the time of the last alert of the other
\* kind, which the test does not look at
needs_alert(last, other, now, cooldown_secs) ==
    ~last.some \/ (now - last.t) \div 1000 >= cooldown_secs

\* The periodic histogram reporting at the top of the loop
report_if_due(loc, now, cfg) ==
    IF (now - loc.last_hist_time) \div 1000 >= cfg.histogram.interval
    THEN [loc |-> [loc EXCEPT !.stats = ReportCycle(loc.stats).stats,
                              !.last_hist_time = now],
          report |-> ReportCycle(loc.stats).report]
    ELSE [loc |-> loc, report |-> NoReport]

\* The 1s candle synthesis of the loop: current_kline and kline_history
\* afterwards
kline_synthesis(loc, p, q, trade_sec) ==
    IF loc.current_kline.some /\ loc.current_kline.open_time = trade_sec
    THEN [current_kline |-> Kline_update(loc.current_kline, p, q),
          kline_history |-> loc.kline_history]
    ELSE IF loc.current_kline.some
    THEN [current_kline |-> Kline_new(trade_sec, p, q),
          kline_history |->
              Append(IF Len(loc.kline_history) >= KlineHistoryLen
                     THEN Tail(loc.kline_history)
                     ELSE loc.kline_history, loc.current_kline)]
    ELSE [current_kline |-> Kline_new(trade_sec, p, q),
          kline_history |-> loc.kline_history]

\* kline_history.iter().chain(current_kline.iter())
\*   .filter(|k| k.open_time >= target_sec - 5)
alert_candidates(k, target_sec) ==
    SelectSeq(IF k.current_kline.some
              THEN Append(k.kline_history, k.current_kline)
              ELSE k.kline_history,
              LAMBDA c : c.open_time >= target_sec - 5)

\* What one turn of the loop did besides changing the locals
NoOutcome ==
    [err |-> FALSE, report |-> NoReport, trend_state |-> "Neutral",
     trend_alert |-> FALSE, ready |-> FALSE, stale |-> FALSE,
     annualized |-> 0, recorded |-> FALSE, vol_alert |-> FALSE]

\* Variant of the test that looks at readiness only
reading_usable_when_ready(v, vol_result) == is_ready(v)

\* vol_calc.is_ready() && !vol_result.is_stale
reading_usable(v, vol_result) == is_ready(v) /\ ~vol_result.is_stale

\* One turn of the loop for a text message that is an aggTrade: the locals
\* and the volatility engine afterwards, and what the turn did.  A price or
\* quantity that does not parse makes run_connection return the error.
on_trade(loc0, v, now, cfg, trade) ==
    LET rep == report_if_due(loc0, now, cfg)
        loc == rep.loc
        p == ParseF64(trade[1])
        q == ParseF64(trade[2])
    IN IF ~p.ok \/ ~q.ok
       THEN [loc |-> loc, vol |-> v,
             out |-> [NoOutcome EXCEPT !.err = TRUE, !.report = rep.report]]
       ELSE
         LET trade_sec == trade[3] \div 1000
             tu == IF cfg.trend.enabled
                   THEN TrendIndicator_update(loc.trend_calc, trade)
                   ELSE [ti |-> loc.trend_calc, state |-> "Neutral"]
             trend_alert == /\ tu.state # "Neutral"
                            /\ needs_alert(loc.last_trend_alert_time,
                                           loc.last_alert_time, now,
                                           cfg.cooldown_secs)
             klines == kline_synthesis(loc, p.val, q.val, trade_sec)
             v1 == InstantVolatilityIndicator_update(v, p.val, trade[3], now)
             vol_result == get_volatility(v1, now)
             measured == reading_usable(v1, vol_result)
             over == measured
                       /\ vol_result.annualized >= cfg.threshold * 10000
             due == over /\ needs_alert(loc.last_alert_time,
                                        loc.last_trend_alert_time, now,
                                        cfg.cooldown_secs)
             candidates == alert_candidates(klines, trade_sec)
         IN [loc |-> [loc EXCEPT
                        !.trend_calc = tu.ti,
                        !.last_trend_alert_time =
                            IF trend_alert THEN [some |-> TRUE, t |-> now]
                            ELSE @,
                        !.current_kline = klines.current_kline,
                        !.kline_history = klines.kline_history,
                        !.stats = IF measured
                                  THEN record(@, vol_result.annualized).stats
                                  ELSE @,
                        !.last_alert_time =
                            IF due THEN [some |-> TRUE, t |-> now] ELSE @],
             vol |-> v1,
             out |-> [err |-> FALSE, report |-> rep.report,
                      trend_state |-> tu.state, trend_alert |-> trend_alert,
                      ready |-> is_ready(v1), stale |-> vol_result.is_stale,
                      annualized |-> vol_result.annualized,
                      recorded |-> measured,
                      vol_alert |-> due /\ candidates # <<>>]]

\* run_connection up to its loop: new locals, whatever the previous call
\* left
run_connection_entry(r, cfg, now) ==
    [r EXCEPT !.connected = TRUE,
              !.loc = run_connection_locals(cfg, now),
              !.sent = [vol |-> NoInstant, trend |-> NoInstant]]

InitConn ==
    /\ rc = IdleConn
    /\ vol = InstantVolatilityIndicator_new(3, 1000, 500000, 1500)
    /\ now_ms = 0
    /\ vres = NoResult
    /\ tel = IdleTelemetry
    /\ hs = IdleStats
    /\ kl = IdleKline
    /\ pf = IdleFit
    /\ vw = VwapCalculator_new(VwapWindowMs, 2)
    /\ vwg = [overflow_checks |-> FALSE, panicked |-> FALSE, window |-> <<>>,
              orderly |-> TRUE, flushed |-> <<>>]
    /\ tsm = TrendStateMachine_new(TrendConfig(1, 1, 5, 25, 10, 12, 5, 2))
    /\ dc = DepthCalculator_new(1500, 800)
    /\ dh = [valid_seen |-> FALSE]
    /\ ih = NoImpactCall

\* main calls run_connection, which connects; between two calls main sleeps
Connect ==
    /\ ~rc.connected
    /\ ~rc.returned.some \/ now_ms - rc.returned.t >= ReconnectDelayMs
    /\ rc' = run_connection_entry(rc, MonitorConfig, now_ms)
    /\ UNCHANGED <<vol, now_ms, OutsideConn>>

\* A turn of the loop for an aggTrade message
ConnTrade ==
    /\ rc.connected
    /\ rc.events < MaxEvents
    /\ \E x \in ConnTrades :
         LET r == on_trade(rc.loc, vol, now_ms, MonitorConfig, x)
         IN /\ rc' = [connected |-> ~r.out.err, events |-> rc.events + 1,
                      loc |-> r.loc,
                      returned |-> IF r.out.err
                                   THEN [some |-> TRUE, t |-> now_ms]
                                   ELSE rc.returned,
                      sent |-> [vol |-> IF r.out.vol_alert
                                        THEN [some |-> TRUE, t |-> now_ms]
                                        ELSE rc.sent.vol,
                                trend |-> IF r.out.trend_alert
                                          THEN [some |-> TRUE, t |-> now_ms]
                                          ELSE rc.sent.trend]]
            /\ vol' = r.vol
    /\ UNCHANGED <<now_ms, OutsideConn>>

\* A turn of the loop for a ping, or for a message that is no aggTrade
ConnOther ==
    /\ rc.connected
    /\ rc' = [rc EXCEPT !.loc = report_if_due(@, now_ms, MonitorConfig).loc]
    /\ UNCHANGED <<vol, now_ms, OutsideConn>>

\* run_connection returns: the stream ended, or a turn of the loop met a
\* transport error, a failed pong or a close frame
Disconnect ==
    /\ rc.connected
    /\ \E in_loop \in BOOLEAN :
         rc' = [rc EXCEPT !.connected = FALSE,
                          !.returned = [some |-> TRUE, t |-> now_ms],
                          !.loc = IF in_loop
                                  THEN report_if_due(@, now_ms, MonitorConfig).loc
                                  ELSE @]
    /\ UNCHANGED <<vol, now_ms, OutsideConn>>

\* The clock moves on
ConnTick ==
    /\ \E n \in Nows : n > now_ms /\ now_ms' = n
    /\ UNCHANGED <<rc, vol, OutsideConn>>

NextConn == Connect \/ ConnTrade \/ ConnOther \/ Disconnect \/ ConnTick

SpecConn == InitConn /\ [][NextConn]_vars

\* Largest target_qty handed to calculate_impact_price by ImpactPrice
MaxTarget == 4

ImpactQtys == -1..MaxTarget

\* Bid and ask slices of several levels, in and out of price order, with a
\* repeated price, with an empty level, and empty
BidSides ==
    { <<>>, <<<<100, 0>>>>, <<<<100, 1>>>>,
      <<<<100, 1>>, <<99, 2>>>>, <<<<99, 2>>, <<100, 1>>>>,
      <<<<99, 1>>, <<100, 1>>, <<99, 1>>>> }

AskSides ==
    { <<>>, <<<<101, 1>>>>,
      <<<<101, 1>>, <<102, 2>>>>, <<<<102, 2>>, <<101, 1>>>>,
      <<<<103, 1>>, <<101, 2>>, <<102, 1>>>> }

InitImpact ==
    /\ dc = DepthCalculator_new(1500, 800)
    /\ ih = NoImpactCall
    /\ vol = InstantVolatilityIndicator_new(2, 1000, 500000, 1500)
    /\ now_ms = 0
    /\ vres = NoResult
    /\ rc = IdleConn
    /\ tel = IdleTelemetry
    /\ hs = IdleStats
    /\ kl = IdleKline
    /\ pf = IdleFit
    /\ vw = VwapCalculator_new(VwapWindowMs, 2)
    /\ vwg = [overflow_checks |-> FALSE, panicked |-> FALSE, window |-> <<>>,
              orderly |-> TRUE, flushed |-> <<>>]
    /\ dh = [valid_seen |-> FALSE]
    /\ tsm = TrendStateMachine_new(TrendConfig(1, 1, 5, 25, 10, 12, 5, 2))

ImpactPrice ==
    /\ \E b \in BidSides, a \in AskSides, q \in ImpactQtys :
          /\ dc' = calculate_impact_price(dc, b, a, q)
          /\ ih' = [bids |-> b, asks |-> a, target_qty |-> q]
    /\ UNCHANGED <<dh, OutsideDepth>>

NextImpact == ImpactPrice

SpecImpact == InitImpact /\ [][NextImpact]_vars

InitDepth ==
    /\ dc = DepthCalculator_new(1500, 800)
    /\ dh = [valid_seen |-> FALSE]
    /\ ih = NoImpactCall
    /\ vol = InstantVolatilityIndicator_new(2, 1000, 500000, 1500)
    /\ now_ms = 0
    /\ vres = NoResult
    /\ rc = IdleConn
    /\ tel = IdleTelemetry
    /\ hs = IdleStats
    /\ kl = IdleKline
    /\ pf = IdleFit
    /\ vw = VwapCalculator_new(VwapWindowMs, 2)
    /\ vwg = [overflow_checks |-> FALSE, panicked |-> FALSE, window |-> <<>>,
              orderly |-> TRUE, flushed |-> <<>>]
    /\ tsm = TrendStateMachine_new(TrendConfig(1, 1, 5, 25, 10, 12, 5, 2))

AddTrade ==
    /\ Len(dc.trade_buffer) < MaxTrades
    /\ \E x \in Trades :
          dc' = DepthCalculator_add_trade(dc, x[1], x[2], x[3], x[4])
    /\ UNCHANGED <<dh, ih, OutsideDepth>>

UpdateDepth ==
    /\ \E id \in 0..MaxUpdateId, t \in DepthTimes, bk \in Books :
          /\ dc' = update_depth(dc, id, t, bk[1], bk[2]).dc
          /\ dh' = [valid_seen |-> dh.valid_seen
                                     \/ (id > dc.last_update_id /\ ValidBook(bk))]
    /\ UNCHANGED <<ih, OutsideDepth>>

CalculateImpactPrice ==
    /\ \E bk \in Books, q \in ImpactTargets :
          dc' = calculate_impact_price(dc, bk[1], bk[2], q)
    /\ UNCHANGED <<dh, ih, OutsideDepth>>

NextDepth == AddTrade \/ UpdateDepth \/ CalculateImpactPrice

SpecDepth == InitDepth /\ [][NextDepth]_vars

InitTrend ==
    /\ tsm \in {TrendStateMachine_new(c) : c \in TrendConfigs}
    /\ dc = DepthCalculator_new(1500, 800)
    /\ dh = [valid_seen |-> FALSE]
    /\ ih = NoImpactCall
    /\ vol = InstantVolatilityIndicator_new(2, 1000, 500000, 1500)
    /\ now_ms = 0
    /\ vres = NoResult
    /\ rc = IdleConn
    /\ tel = IdleTelemetry
    /\ hs = IdleStats
    /\ kl = IdleKline
    /\ pf = IdleFit
    /\ vw = VwapCalculator_new(VwapWindowMs, 2)
    /\ vwg = [overflow_checks |-> FALSE, panicked |-> FALSE, window |-> <<>>,
              orderly |-> TRUE, flushed |-> <<>>]

TrendUpdate ==
    \E t \in Times, f \in Fits, o \in Ofis, p \in LatestPrices :
        /\ tsm' = TrendStateMachine_update(tsm, t, f, o, p)
        /\ UNCHANGED OutsideTrend

NextTrend == TrendUpdate

SpecTrend == InitTrend /\ [][NextTrend]_vars

(***************************************************************************)
(* Properties of TrendStateMachine                                         *)
(***************************************************************************)
\* What the documentation says about a call made in Holding, written from
\* its wording and not from the handler
Elapsed(m, t) == t - m.entry_ts_sec

FittedPrice(m, t) == m.entry_intercept + m.entry_slope * Elapsed(m, t)

\* 100 * clamp((1 - ratio) * |entry_slope| * elapsed, min, max)
FallbackThreshold100(m, t) ==
    LET raw == (100 - m.slope_threshold_ratio) * Abs(m.entry_slope) * Elapsed(m, t)
    IN IF raw < 100 * m.min_price_fallback THEN 100 * m.min_price_fallback
       ELSE IF raw > 100 * m.max_price_fallback THEN 100 * m.max_price_fallback
       ELSE raw

PriceCrossed(m, t, p) ==
    \/ m.direction = "Long"
       /\ 100 * p < 100 * FittedPrice(m, t) - FallbackThreshold100(m, t)
    \/ m.direction = "Short"
       /\ 100 * p > 100 * FittedPrice(m, t) + FallbackThreshold100(m, t)

PriceFallbackDue(m, t, p) ==
    Elapsed(m, t) >= m.entry_protection_secs /\ PriceCrossed(m, t, p)

\* The 10 most recent slopes once slope s has been supplied
RecentSlopes(m, s) ==
    LET a == m.slope_history \o <<s>>
    IN IF Len(a) <= 10 THEN a ELSE SubSeq(a, Len(a) - 9, Len(a))

IsWeak(m, s) ==
    \/ m.direction = "Long" /\ s < m.slope_weak_threshold
    \/ m.direction = "Short" /\ s > -m.slope_weak_threshold

NumWeak(m, h) == Cardinality({i \in 1..Len(h) : IsWeak(m, h[i])})

MomentumExhausted(m, t, s) ==
    /\ Elapsed(m, t) >= 5
    /\ Len(RecentSlopes(m, s)) = 10
    /\ NumWeak(m, RecentSlopes(m, s)) > 5

LongSignal(m, f, o) ==
    f.some /\ f.is_valid /\ f.slope > m.slope_threshold
    /\ o > m.ofi_confirm_threshold

ShortSignal(m, f, o) ==
    f.some /\ f.is_valid /\ f.slope < -m.slope_threshold
    /\ o < -m.ofi_confirm_threshold

SameEntry(m, r) ==
    /\ r.entry_slope = m.entry_slope
    /\ r.entry_intercept = m.entry_intercept
    /\ r.entry_ts_sec = m.entry_ts_sec

\* C1: from Scanning, a valid fit with slope > slope_threshold and
\* cum_ofi > ofi_confirm_threshold moves the machine to Holding/Long and
\* records entry_slope, entry_price = fit.current_price and entry_ts; every
\* later update made while the machine is still Holding leaves entry_slope,
\* entry_price and entry_ts as recorded at entry.
C1_EnterLongOnce ==
    /\ [](tsm.state = "Scanning" =>
            \A t \in Times, f \in Fits, o \in Ofis, p \in LatestPrices :
               LongSignal(tsm, f, o) =>
                 LET r == TrendStateMachine_update(tsm, t, f, o, p)
                 IN /\ r.state = "Holding" /\ r.direction = "Long"
                    /\ r.entry_slope = f.slope
                    /\ r.entry_intercept = f.current_price
                    /\ r.entry_ts_sec = t)
    /\ [][tsm.state = "Holding" /\ tsm'.state = "Holding"
            => SameEntry(tsm, tsm')]_vars

\* A Long position entered at a positive time that has since seen a call
\* with another slope
C1_Witness ==
    /\ tsm.state = "Holding" /\ tsm.direction = "Long"
    /\ tsm.entry_slope = 2 /\ tsm.entry_intercept = 100 /\ tsm.entry_ts_sec = 5
    /\ Len(tsm.slope_history) >= 2
    /\ \E i \in 1..Len(tsm.slope_history) : tsm.slope_history[i] = -2

\* C2: in Holding with a fit supplied, the price-fallback rule moves the
\* machine to Cooldown if and only if elapsed >= entry_protection_secs and
\* the price is beyond fitted -/+ threshold against the held direction; before
\* entry_protection_secs has elapsed this rule causes no exit.  (An exit that
\* is not due to this rule is one of the momentum-exhaustion rule.)
C2_PriceFallback ==
    tsm.state = "Holding" =>
      \A t \in Times, f \in Fits, o \in Ofis, p \in LatestPrices :
         f.some =>
           LET r == TrendStateMachine_update(tsm, t, f, o, p)
           IN /\ PriceFallbackDue(tsm, t, p) => r.state = "Cooldown"
              /\ (r.state = "Cooldown" /\ ~MomentumExhausted(tsm, t, f.slope))
                    => PriceFallbackDue(tsm, t, p)
              /\ (Elapsed(tsm, t) < tsm.entry_protection_secs
                  /\ ~MomentumExhausted(tsm, t, f.slope))
                    => r.state = "Holding"

\* A position from which one call exits by the price rule alone, another
\* call at the same time does not (price on the threshold), and a third
\* crosses the price inside the protection period and stays
C2_Witness ==
    /\ tsm.state = "Holding"
    /\ \E t \in Times, f \in Fits, o \in Ofis, p \in LatestPrices :
         /\ f.some /\ PriceFallbackDue(tsm, t, p)
         /\ ~MomentumExhausted(tsm, t, f.slope)
         /\ TrendStateMachine_update(tsm, t, f, o, p).state = "Cooldown"
         /\ \E q \in LatestPrices :
              /\ ~PriceFallbackDue(tsm, t, q)
              /\ TrendStateMachine_update(tsm, t, f, o, q).state = "Holding"
    /\ \E t \in Times, f \in Fits, o \in Ofis, p \in LatestPrices :
         /\ f.some /\ PriceCrossed(tsm, t, p)
         /\ Elapsed(tsm, t) < tsm.entry_protection_secs
         /\ TrendStateMachine_update(tsm, t, f, o, p).state = "Holding"

\* C3: in Cooldown, an update moves the machine to Scanning if and only if
\* now - cooldown_start >= cooldown_secs; otherwise the state stays Cooldown
\* and the direction Neutral, whatever fit, OFI and price are supplied.
C3_CooldownExpiry ==
    tsm.state = "Cooldown" =>
      \A t \in Times, f \in Fits, o \in Ofis, p \in LatestPrices :
         LET r == TrendStateMachine_update(tsm, t, f, o, p)
         IN /\ r.state = "Scanning"
                 <=> t - tsm.cooldown_start_ts >= tsm.cooldown_secs
            /\ t - tsm.cooldown_start_ts < tsm.cooldown_secs
                 => r.state = "Cooldown" /\ r.direction = "Neutral"

\* A machine back in Scanning after a position was held and cooled down
C3_Witness ==
    /\ tsm.state = "Scanning" /\ tsm.entry_slope # 0
    /\ tsm.cooldown_start_ts > 0

\* C4: each update call leaves the state unchanged or takes exactly one of
\* Scanning->Holding, Holding->Cooldown, Cooldown->Scanning.
C4_Edges ==
    [][\/ tsm'.state = tsm.state
       \/ tsm.state = "Scanning" /\ tsm'.state = "Holding"
       \/ tsm.state = "Holding" /\ tsm'.state = "Cooldown"
       \/ tsm.state = "Cooldown" /\ tsm'.state = "Scanning"]_vars

\* A second position, entered after a full Holding/Cooldown/Scanning round
C4_Witness ==
    /\ tsm.state = "Holding" /\ tsm.cooldown_start_ts > 0
    /\ tsm.entry_ts_sec >= tsm.cooldown_start_ts + tsm.cooldown_secs

\* C5: direction is Long or Short exactly in Holding and Neutral exactly in
\* Scanning and Cooldown; every exit sets state = Cooldown, cooldown_start =
\* the timestamp of the exit call, direction = Neutral and empties the slope
\* history.
C5_DirectionMatchesState ==
    /\ tsm.direction \in {"Long", "Short"} <=> tsm.state = "Holding"
    /\ tsm.direction = "Neutral" <=> tsm.state \in {"Scanning", "Cooldown"}
    /\ tsm.state = "Holding" =>
         \A t \in Times, f \in Fits, o \in Ofis, p \in LatestPrices :
            LET r == TrendStateMachine_update(tsm, t, f, o, p)
            IN r.state # "Holding" =>
                 /\ r.state = "Cooldown" /\ r.cooldown_start_ts = t
                 /\ r.direction = "Neutral" /\ r.slope_history = <<>>

\* A machine that has just left a position with a non-empty slope history
C5_Witness ==
    /\ tsm.state = "Cooldown" /\ tsm.cooldown_start_ts > 0
    /\ tsm.direction = "Neutral" /\ tsm.slope_history = <<>>

C7_MomentumExhaustion ==
    /\ Len(tsm.slope_history) <= 10
    /\ tsm.state = "Holding" =>
         \A t \in Times, f \in Fits, o \in Ofis, p \in LatestPrices :
            f.some =>
              LET r == TrendStateMachine_update(tsm, t, f, o, p)
              IN /\ r.state = "Holding" =>
                      r.slope_history = RecentSlopes(tsm, f.slope)
                 /\ MomentumExhausted(tsm, t, f.slope) => r.state = "Cooldown"
                 /\ (r.state = "Cooldown" /\ ~PriceFallbackDue(tsm, t, p))
                      => MomentumExhausted(tsm, t, f.slope)

\* A full history from which a sixth weak slope exits inside the protection
\* period with the price rule silent, while a call leaving 5 weak slopes stays
C7_Witness ==
    /\ tsm.state = "Holding" /\ Len(tsm.slope_history) = 10
    /\ \E t \in Times, f \in Fits, o \in Ofis, p \in LatestPrices :
         /\ f.some /\ Elapsed(tsm, t) >= 5
         /\ Elapsed(tsm, t) < tsm.entry_protection_secs
         /\ ~PriceFallbackDue(tsm, t, p)
         /\ NumWeak(tsm, RecentSlopes(tsm, f.slope)) = 6
         /\ TrendStateMachine_update(tsm, t, f, o, p).state = "Cooldown"
         /\ \E g \in Fits :
              /\ g.some
              /\ NumWeak(tsm, RecentSlopes(tsm, g.slope)) = 5
              /\ TrendStateMachine_update(tsm, t, g, o, p).state = "Holding"

(***************************************************************************)
(* Properties of InstantVolatilityIndicator                                *)
(***************************************************************************)
\* a is b without some of its first elements
IsSuffix(a, b) ==
    /\ Len(a) <= Len(b)
    /\ a = SubSeq(b, Len(b) - Len(a) + 1, Len(b))

\* Wall-clock age of a buffered sample at time n
Age(x, n) == n - x[2]

\* C16: the buffer never holds more than window_size entries, and an update
\* removes entries only from the old end: the buffer after update is a suffix
\* of the buffer before it followed by the new sample, so it always is a
\* contiguous suffix, in arrival order, of all samples pushed.
C16_BoundedFifo ==
    /\ Len(vol.prices) <= vol.window_size
    /\ \A p \in VolPrices, t \in VolTimes, n \in Nows :
         LET r == InstantVolatilityIndicator_update(vol, p, t, n)
         IN /\ Len(r.prices) <= r.window_size
            /\ IsSuffix(r.prices, Append(vol.prices, <<Ln(p), t>>))

\* A full buffer of 3 from which one update evicts one entry for capacity,
\* and another, at a later time, evicts two expired ones
C16_Witness ==
    /\ vol.window_size = 3 /\ Len(vol.prices) = 3
    /\ \E p \in VolPrices, t \in VolTimes :
         LET r == InstantVolatilityIndicator_update(vol, p, t, now_ms)
         IN r.prices = Append(Tail(vol.prices), <<Ln(p), t>>)
    /\ \E p \in VolPrices, t \in VolTimes, n \in Nows :
         LET r == InstantVolatilityIndicator_update(vol, p, t, n)
         IN r.prices = <<vol.prices[3], <<Ln(p), t>>>>

StaleDue(v, n) ==
    \/ Len(v.prices) < 2
    \/ Age(v.prices[Len(v.prices)], n) > v.stale_threshold_ms

\* C17: get_volatility returns the stale fallback (is_stale, annualized =
\* fallback_volatility, raw_vol = dt_secs = duration_ms = 0) if and only if
\* the buffer holds fewer than 2 samples or the wall-clock age of the newest
\* sample exceeds stale_threshold_ms, and is_stale = false otherwise; the call
\* does not change the indicator.
C17_StaleFallback ==
    /\ [](\A n \in Nows :
            LET r == get_volatility(vol, n)
                fallback == [annualized |-> vol.fallback_volatility,
                             raw_vol |-> 0, dt_secs |-> 0, duration_ms |-> 0,
                             is_stale |-> TRUE]
            IN /\ (r = fallback) <=> StaleDue(vol, n)
               /\ r.is_stale <=> StaleDue(vol, n))
    /\ [][vres' # vres => vol' = vol]_vars

\* Two or more samples whose newest got too old: the last call returned the
\* fallback, while at the time the age equalled the threshold it would not
C17_Witness ==
    /\ Len(vol.prices) >= 2 /\ vres.is_stale
    /\ vres.annualized = vol.fallback_volatility
    /\ Age(vol.prices[Len(vol.prices)], now_ms) > vol.stale_threshold_ms
    /\ \E n \in Nows :
         /\ Age(vol.prices[Len(vol.prices)], n) = vol.stale_threshold_ms
         /\ ~get_volatility(vol, n).is_stale

\* C18: right after update the buffer is not empty, and no entry other than
\* the one just appended has a wall-clock age above expire_threshold_ms,
\* whatever the trade timestamps were.
C18_NoExpiredLeft ==
    \A p \in VolPrices, t \in VolTimes :
       LET r == InstantVolatilityIndicator_update(vol, p, t, now_ms)
       IN /\ r.prices # <<>>
          /\ \A i \in 1..(Len(r.prices) - 1) :
                Age(r.prices[i], now_ms) <= vol.expire_threshold_ms

\* The part of C18 that holds: the buffer is not empty after update, its
\* oldest entry has not expired unless it is the appended one, and the
\* appended sample is the newest entry
C18_FrontNotExpired ==
    \A p \in VolPrices, t \in VolTimes :
       LET r == InstantVolatilityIndicator_update(vol, p, t, now_ms)
       IN /\ r.prices # <<>>
          /\ r.prices[Len(r.prices)] = <<Ln(p), t>>
          /\ Len(r.prices) > 1 =>
                (Age(r.prices[1], now_ms) <= vol.expire_threshold_ms
                 \/ Len(vol.prices) = vol.window_size)

\* The result C19 gives for samples (100, 0 ms) and (101, 1000 ms)
ExampleResult ==
    [annualized |-> (Ln(101) - Ln(100)) * 10 * Sqrt(SecondsInYear \div 100),
     raw_vol |-> Ln(101) - Ln(100), dt_secs |-> 1000, duration_ms |-> 1000,
     is_stale |-> FALSE]

\* An empty indicator after update(100, 0) at time n1 and update(101, 1000)
\* at time n2
AfterExample(v, n1, n2) ==
    InstantVolatilityIndicator_update(
        InstantVolatilityIndicator_update(v, 100, 0, n1), 101, 1000, n2)

\* C19 as stated: with window_size = 2, after update(100, 0 ms) and
\* update(101, 1000 ms) get_volatility returns a non-stale result with
\* duration_ms = 1000, dt_secs = 1.0, raw_vol = |ln 101 - ln 100| and
\* annualized = raw_vol * sqrt(seconds per year); and for two buffered samples
\* the duration is the difference of their timestamps and raw_vol the absolute
\* difference of their log-prices.
C19_TwoSamples ==
    /\ (vol.window_size = 2 /\ vol.prices = <<>>) =>
         \A n1 \in Nows, n2 \in Nows, n3 \in Nows :
            (now_ms <= n1 /\ n1 <= n2 /\ n2 <= n3) =>
               get_volatility(AfterExample(vol, n1, n2), n3) = ExampleResult
    /\ Len(vol.prices) = 2 =>
         \A n \in Nows :
            LET r == get_volatility(vol, n)
            IN /\ r.duration_ms = vol.prices[2][2] - vol.prices[1][2]
               /\ r.raw_vol = Abs(vol.prices[2][1] - vol.prices[1][1])

\* C19 as amended: the example holds when the first sample has not expired
\* at the second update and the second is not older than stale_threshold_ms
\* at the call; for two buffered samples whose newest is not older than
\* stale_threshold_ms the result is not stale, its duration is the difference
\* of the timestamps (0 when the newest timestamp is the smaller one),
\* dt_secs is that duration, raw_vol is the absolute difference of the
\* log-prices and annualized = raw_vol * sqrt(seconds per year / max(dt, 0.01)).
C19_TwoFreshSamples ==
    /\ (vol.window_size = 2 /\ vol.prices = <<>>) =>
         \A n1 \in Nows, n2 \in Nows, n3 \in Nows :
            (/\ now_ms <= n1 /\ n1 <= n2 /\ n2 <= n3
             /\ n2 - 0 <= vol.expire_threshold_ms
             /\ n3 - 1000 <= vol.stale_threshold_ms) =>
               get_volatility(AfterExample(vol, n1, n2), n3) = ExampleResult
    /\ Len(vol.prices) = 2 =>
         \A n \in Nows :
            Age(vol.prices[2], n) <= vol.stale_threshold_ms =>
              LET r == get_volatility(vol, n)
                  d == vol.prices[2][2] - vol.prices[1][2]
                  dur == IF d > 0 THEN d ELSE 0
                  cs == IF dur \div 10 >= 1 THEN dur \div 10 ELSE 1
              IN /\ ~r.is_stale
                 /\ r.duration_ms = dur /\ r.dt_secs = dur
                 /\ r.raw_vol = Abs(vol.prices[2][1] - vol.prices[1][1])
                 /\ r.annualized
                       = r.raw_vol * 10 * Sqrt(SecondsInYear \div cs)

\* The two samples of the example in a window of 2, and the result of the
\* example returned by the last call
C19_Witness ==
    /\ vol.window_size = 2
    /\ vol.prices = <<<<Ln(100), 0>>, <<Ln(101), 1000>>>>
    /\ vres = ExampleResult /\ vres.raw_vol = 9951

(***************************************************************************)
(* Properties of DepthCalculator.update_depth                              *)
(***************************************************************************)
EmptySide(bk) == bk[1] = <<>> \/ bk[2] = <<>>

\* best bid >= best ask, both sides present
Crossed(bk) ==
    /\ bk[1] # <<>> /\ bk[2] # <<>>
    /\ \E i \in 1..Len(bk[1]) : \A j \in 1..Len(bk[2]) : bk[1][i][1] >= bk[2][j][1]

\* C8: update_depth returns None on the first call ever made on a new engine
\* (no call has been accepted while last_update_id is 0), and on every call
\* whose update_id is at most the update_id of the last accepted call,
\* whatever the book holds.
C8_WarmupAndDuplicates ==
    \A id \in 0..MaxUpdateId, t \in DepthTimes, bk \in Books :
       (dc.last_update_id = 0 \/ id <= dc.last_update_id)
          => ~update_depth(dc, id, t, bk[1], bk[2]).ret.some

\* An engine past its warm-up: a valid book with a new update_id yields an
\* OFI, the same book with the last accepted update_id yields None
C8_Witness ==
    /\ dc.last_update_id >= 2 /\ dc.last_update_id < MaxUpdateId
    /\ dc.ofi_buffer # <<>>
    /\ \E t \in DepthTimes, bk \in Books :
         /\ update_depth(dc, dc.last_update_id + 1, t, bk[1], bk[2]).ret.some
         /\ ~update_depth(dc, dc.last_update_id, t, bk[1], bk[2]).ret.some

\* C9: last_update_id never decreases, and a call with update_id <=
\* last_update_id changes nothing: previous books, last_update_id,
\* last_depth_ts, OFI buffer, trade buffer and impact price stay as they were.
C9_RejectedIsNoOp ==
    /\ [](\A id \in 0..MaxUpdateId, t \in DepthTimes, bk \in Books :
             id <= dc.last_update_id
                => update_depth(dc, id, t, bk[1], bk[2]).dc = dc)
    /\ [][dc'.last_update_id >= dc.last_update_id]_vars

\* An engine with every part of its state set, offered an update it has
\* already accepted, with other contents
C9_Witness ==
    /\ dc.last_update_id >= 2 /\ dc.prev_bids # <<>> /\ dc.prev_asks # <<>>
    /\ dc.ofi_buffer # <<>> /\ dc.trade_buffer # <<>> /\ dc.impact_qty > 0
    /\ \E id \in 1..dc.last_update_id, t \in DepthTimes, bk \in Books :
         /\ t # dc.last_depth_ts_ms /\ BookMap(bk[1]) # dc.prev_bids
         /\ update_depth(dc, id, t, bk[1], bk[2]).dc = dc

\* C10: an accepted update whose book is crossed or has an empty side returns
\* None, appends nothing to the OFI buffer, and replaces the stored previous
\* book and last_depth_ts with those of the update.
C10_CrossedOrEmptySuppressed ==
    \A id \in 0..MaxUpdateId, t \in DepthTimes, bk \in Books :
       (id > dc.last_update_id /\ (Crossed(bk) \/ EmptySide(bk))) =>
          LET r == update_depth(dc, id, t, bk[1], bk[2])
          IN /\ ~r.ret.some
             /\ r.dc.ofi_buffer = dc.ofi_buffer
             /\ r.dc.prev_bids = BookMap(bk[1])
             /\ r.dc.prev_asks = BookMap(bk[2])
             /\ r.dc.last_depth_ts_ms = t

\* C11: as long as no valid book (both sides non-empty, not crossed) has been
\* accepted, an accepted update_depth call that carries a valid book returns
\* None and only stores the book, the update_id and the time, whatever calls
\* were accepted before (books with an empty side, crossed books).
C11_FirstValidIsWarmup ==
    ~dh.valid_seen =>
      \A id \in 0..MaxUpdateId, t \in DepthTimes, bk \in Books :
         (id > dc.last_update_id /\ ValidBook(bk)) =>
            LET r == update_depth(dc, id, t, bk[1], bk[2])
            IN /\ ~r.ret.some
               /\ r.dc = [dc EXCEPT !.last_update_id = id,
                                    !.prev_bids = BookMap(bk[1]),
                                    !.prev_asks = BookMap(bk[2]),
                                    !.last_depth_ts_ms = t]

\* The engine as it is, or with one more trade received
WithOneMoreTrade(d) ==
    {d} \cup {DepthCalculator_add_trade(d, x[1], x[2], x[3], x[4]) : x \in Trades}

\* Quantity attributed at a price key, on both sides together
AttributedQty(att, k) == MapGet(att.bids, k) + MapGet(att.asks, k)

\* Quantity at a price key of the buffered trades with after < time <= upto
BufferedQty(buf, k, after, upto) ==
    LET in == {i \in 1..Len(buf) : /\ buf[i][1] > after /\ buf[i][1] <= upto
                                   /\ buf[i][2] * 100 = k}
    IN SumF([i \in in |-> buf[i][3]], in)

TradeKeys == {x[2] * 100 : x \in Trades}

\* The buffered trades later than every time of the set, in buffer order
LaterThan(buf, times) ==
    LET Later(x) == \A u \in times : x[1] > u IN SelectSeq(buf, Later)

\* What C12 says of one call that returns an OFI value: the trades with
\* last_depth_ts < timestamp <= trans_time are attributed
AttributedInWindow(d, r, t) ==
    \A k \in TradeKeys :
       AttributedQty(r.att, k)
          = BufferedQty(d.trade_buffer, k, d.last_depth_ts_ms, t)

\* C12 as stated: on a call that returns an OFI value, exactly the buffered
\* trades with last_depth_ts < timestamp <= trans_time are attributed, and the
\* buffered trades with timestamp > trans_time stay in the buffer in their
\* order.
C12_TradesAfterTickStay ==
    \A d \in WithOneMoreTrade(dc) :
      \A id \in 0..(MaxUpdateId + 1), t \in DepthTimes, bk \in Books :
         LET r == update_depth(d, id, t, bk[1], bk[2])
         IN r.ret.some =>
              /\ AttributedInWindow(d, r, t)
              /\ r.dc.trade_buffer = LaterThan(d.trade_buffer, {t})

\* The part of C12 that holds: on a call that returns an OFI value, exactly the buffered
\* trades with last_depth_ts < timestamp <= trans_time are attributed; the
\* buffered trades later than both trans_time and last_depth_ts stay in the
\* buffer in their order and every other trade leaves it, so no attributed
\* trade is left for another tick; a call that returns None attributes nothing
\* and leaves the trade buffer as it is.
C12_TradesAttributedOnce ==
    \A d \in WithOneMoreTrade(dc) :
      \A id \in 0..(MaxUpdateId + 1), t \in DepthTimes, bk \in Books :
         LET r == update_depth(d, id, t, bk[1], bk[2])
         IN /\ r.ret.some =>
                 /\ AttributedInWindow(d, r, t)
                 /\ r.dc.trade_buffer
                       = LaterThan(d.trade_buffer, {t, d.last_depth_ts_ms})
                 /\ \A k \in TradeKeys :
                       BufferedQty(r.dc.trade_buffer, k, d.last_depth_ts_ms, t) = 0
            /\ ~r.ret.some =>
                 /\ r.att = NoSlices
                 /\ r.dc.trade_buffer = d.trade_buffer

\* An engine past its warm-up holding a trade; with one more trade received,
\* one call attributes one of the two and keeps the other
C12_Witness ==
    /\ Len(dc.trade_buffer) = 1 /\ dc.prev_bids # <<>>
    /\ \E d \in WithOneMoreTrade(dc), id \in 0..(MaxUpdateId + 1),
          t \in DepthTimes, bk \in Books :
         LET r == update_depth(d, id, t, bk[1], bk[2])
         IN /\ r.ret.some /\ Len(d.trade_buffer) = 2
            /\ Len(r.dc.trade_buffer) = 1
            /\ \E k \in TradeKeys : AttributedQty(r.att, k) = 1

\* C13: after a call that returns an OFI value at time t, every entry left in
\* the OFI buffer has a timestamp >= t - cum_window, whatever trans_time values
\* were accepted before; and get_cum_ofi() then returns the cum_ofi the call
\* returned (0 when the buffer is empty).
C13_BufferWithinWindow ==
    /\ dc.ofi_buffer = <<>> => get_cum_ofi(dc) = 0
    /\ \A id \in 0..(MaxUpdateId + 1), t \in DepthTimes, bk \in Books :
         LET r == update_depth(dc, id, t, bk[1], bk[2])
         IN r.ret.some =>
              /\ \A i \in 1..Len(r.dc.ofi_buffer) :
                    r.dc.ofi_buffer[i][1] >= t - dc.cum_window_ms
              /\ get_cum_ofi(r.dc) = r.ret.cum_ofi

\* The part of C13 about get_cum_ofi
C13_CumOfiAgrees ==
    /\ dc.ofi_buffer = <<>> => get_cum_ofi(dc) = 0
    /\ \A id \in 0..(MaxUpdateId + 1), t \in DepthTimes, bk \in Books :
         LET r == update_depth(dc, id, t, bk[1], bk[2])
         IN r.ret.some => get_cum_ofi(r.dc) = r.ret.cum_ofi

(***************************************************************************)
(* Properties of DepthCalculator.calculate_impact_price                    *)
(***************************************************************************)
\* The ways of taking q units from the levels of a side, at most its
\* quantity from each level
Takings(side, q) ==
    {f \in [1..Len(side) -> 0..q] :
        /\ \A i \in 1..Len(side) : f[i] <= side[i][2]
        /\ SumF(f, 1..Len(side)) = q}

Cost(side, f) == SumF([i \in 1..Len(side) |-> side[i][1] * f[i]], 1..Len(side))

\* Cost of q units taken from the lowest prices upward, and proceeds of q
\* units taken from the highest prices downward
CheapestCost(side, q) ==
    LET costs == {Cost(side, f) : f \in Takings(side, q)}
    IN CHOOSE c \in costs : \A e \in costs : c <= e

HighestProceeds(side, q) ==
    LET costs == {Cost(side, f) : f \in Takings(side, q)}
    IN CHOOSE c \in costs : \A e \in costs : c >= e

ImpactQuantity(b, a, q) == Min2(Min2(q, TotalQty(b)), TotalQty(a))

\* C14: calculate_impact_price uses q = min(target_qty, total bid quantity,
\* total ask quantity); when q > 0 it stores q as the impact quantity and, as
\* the impact price, the mean of the average price of the q cheapest ask
\* units and the average price of the q dearest bid units, whatever the order
\* of the levels in its arguments.
C14_ImpactPrice ==
    \A b \in BidSides, a \in AskSides, q \in ImpactQtys :
       LET n == ImpactQuantity(b, a, q)
           r == calculate_impact_price(dc, b, a, q)
       IN n > 0 =>
            /\ r.impact_qty = n
            /\ r.impact_price[2] > 0
            /\ r.impact_price[1] * 2 * n
                  = (CheapestCost(a, n) + HighestProceeds(b, n)) * r.impact_price[2]
            /\ r = [dc EXCEPT !.impact_price = r.impact_price,
                              !.impact_qty = r.impact_qty]

\* The last call had levels out of price order on both sides and a target
\* above the bid total: 3 units, asks 101, 101, 102 and bids 100, 99, 99
C14_Witness ==
    /\ ih = [bids |-> <<<<99, 2>>, <<100, 1>>>>,
             asks |-> <<<<103, 1>>, <<101, 2>>, <<102, 1>>>>, target_qty |-> 4]
    /\ dc.impact_qty = 3 /\ dc.impact_price = <<301, 3>>

\* C15: when either side has zero total quantity or target_qty <= 0,
\* calculate_impact_price changes nothing: impact price and impact quantity
\* keep their values, which are 0 while no price has been computed.
C15_NoLiquidityKeepsPrice ==
    /\ dc.impact_qty = 0 => dc.impact_price = <<0, 1>>
    /\ \A b \in BidSides, a \in AskSides, q \in ImpactQtys :
         (TotalQty(b) = 0 \/ TotalQty(a) = 0 \/ q <= 0)
            => calculate_impact_price(dc, b, a, q) = dc

\* A price has been computed, and the last call, with a positive target and
\* bids but no ask quantity, left it in place
C15_Witness ==
    /\ dc.impact_qty > 0 /\ dc.impact_price[1] > 0
    /\ ih.target_qty > 0 /\ TotalQty(ih.bids) > 0 /\ TotalQty(ih.asks) = 0

\* The part of C10 about a book with an empty side
C10_EmptySideSuppressed ==
    \A id \in 0..MaxUpdateId, t \in DepthTimes, bk \in Books :
       (id > dc.last_update_id /\ EmptySide(bk)) =>
          LET r == update_depth(dc, id, t, bk[1], bk[2])
          IN /\ ~r.ret.some
             /\ r.dc.ofi_buffer = dc.ofi_buffer
             /\ r.dc.prev_bids = BookMap(bk[1])
             /\ r.dc.prev_asks = BookMap(bk[2])
             /\ r.dc.last_depth_ts_ms = t

(***************************************************************************)
(* Properties of VwapCalculator.add_trade and flush                        *)
(***************************************************************************)
RECURSIVE SumPQ(_)
SumPQ(w) == IF w = <<>> THEN 0 ELSE w[1][1] * w[1][2] + SumPQ(Tail(w))

RECURSIVE SumQ(_)
SumQ(w) == IF w = <<>> THEN 0 ELSE w[1][2] + SumQ(Tail(w))

\* What add_trade owes for trade x when the open window holds the trades w:
\* None while x is less than window_ms after the window's start; otherwise
\* the point of w (or None and no append when the quantities of w sum to
\* nothing positive), and x alone in the accumulators of the new window
WindowContract(v, w, x, r) ==
    /\ ~r.panicked
    /\ IF x[3] - w[1][3] < v.window_ms
       THEN r.ret = NoPoint
       ELSE /\ IF SumQ(w) > 0
               THEN /\ r.ret = SomePoint(Quot(SumPQ(w), SumQ(w)), w[Len(w)][3])
                    /\ get_series(r.vw) # <<>>
                    /\ get_series(r.vw)[Len(get_series(r.vw))] = r.ret
               ELSE /\ r.ret = NoPoint
                    /\ get_series(r.vw) = get_series(v)
            /\ r.vw.window_start_ms = x[3]
            /\ r.vw.sum_pq = x[1] * x[2]
            /\ r.vw.sum_q = x[2]

\* C20: with a window open, add_trade returns None for a trade less than
\* window_ms after the window's start; the first trade at or beyond window_ms
\* closes the window and returns the point whose price is the sum of
\* price*qty over the sum of qty of exactly the trades received in that
\* window and whose timestamp is that of its last trade, appended to the
\* series; the triggering trade starts the new window; a closed window whose
\* quantities sum to nothing positive appends nothing and returns None.
C20_WindowCloses ==
    (~vwg.panicked /\ vwg.window # <<>>) =>
        \A x \in VwapTrades :
            WindowContract(vw, vwg.window, x,
                VwapCalculator_add_trade(vw, x[1], x[2], x[3],
                                         vwg.overflow_checks))

\* The part of C20 that holds: the same, as long as every trade has a positive
\* timestamp that is not before the start of the window open when it arrives.
C20_OrderlyWindowCloses ==
    (~vwg.panicked /\ vwg.window # <<>> /\ vwg.orderly) =>
        \A x \in VwapTrades :
            Orderly(vwg.window, x) =>
                WindowContract(vw, vwg.window, x,
                    VwapCalculator_add_trade(vw, x[1], x[2], x[3],
                                             vwg.overflow_checks))

\* A window of two orderly trades has closed with the point 203/2 stamped 100
C20_Witness ==
    /\ vwg.orderly
    /\ get_series(vw) # <<>>
    /\ get_series(vw)[Len(get_series(vw))] = SomePoint(<<203, 2>>, 100)
    /\ vwg.window = << <<100, 1, 200>> >>

Older(series, cutoff_ms) ==
    SelectSeq(series, LAMBDA pt : pt.timestamp_ms < cutoff_ms)

\* C22: after cleanup(cutoff_ms) no point older than the cutoff is left in
\* the series and no point at or after the cutoff has been removed, whatever
\* trade timestamps produced the series; the accumulators of the open window
\* are as they were.
C22_CleanupDropsOlder ==
    ~vwg.panicked =>
        \A cutoff_ms \in VwapCutoffs :
            LET after == cleanup(vw, cutoff_ms)
            IN /\ get_series(after) =
                    SelectSeq(get_series(vw),
                              LAMBDA pt : pt.timestamp_ms >= cutoff_ms)
               /\ after = [vw EXCEPT !.vwap_series = get_series(after)]

\* The part of C22 that holds: cleanup removes only points older than the
\* cutoff, leaves a front that is not older than the cutoff, and touches
\* nothing but the series.
C22_CleanupFrontNotOlder ==
    \A cutoff_ms \in VwapCutoffs :
        LET after == cleanup(vw, cutoff_ms)
            removed == Len(get_series(vw)) - Len(get_series(after))
        IN /\ IsSuffix(get_series(after), get_series(vw))
           /\ Older(SubSeq(get_series(vw), 1, removed), cutoff_ms) =
                  SubSeq(get_series(vw), 1, removed)
           /\ get_series(after) # <<>> =>
                  Head(get_series(after)).timestamp_ms >= cutoff_ms
           /\ after = [vw EXCEPT !.vwap_series = get_series(after)]

(***************************************************************************)
(* Properties of PriceFitter.fit                                           *)
(***************************************************************************)
\* The latest timestamp of a non-empty series
Latest(series) ==
    CHOOSE m \in {series[i].timestamp_ms : i \in DOMAIN series} :
        \A i \in DOMAIN series : series[i].timestamp_ms <= m

\* The points of a sequence all carry one timestamp
OneTimestamp(points) ==
    \A i, j \in DOMAIN points : points[i].timestamp_ms = points[j].timestamp_ms

\* What fit owes for a window that reaches window_ms back from `anchor`:
\* no result with fewer than min_points points in the window, no result
\* when the points in the window share one timestamp, and a result whose
\* is_valid is true exactly when R2 >= min_r2
FitContract(f, series, anchor, r) ==
    LET points == InWindow(series, anchor, f.window_ms)
    IN /\ ~r.panicked
       /\ Len(points) < f.min_points => ~r.some
       /\ OneTimestamp(points) => ~r.some
       /\ r.some => (r.is_valid <=> QuotGeq(r.r_squared, f.min_r2))

\* C23: fit returns no result whenever fewer than min_points points of the
\* series lie within window_secs of the latest timestamp of the series, and
\* no result when all in-window points share one timestamp; a result has
\* is_valid true exactly when R2 >= min_r2.
C23_FitWindowFromLatest ==
    pf.series # <<>> =>
        \A ts \in FitTimes :
            FitContract(pf.fitter, pf.series, Latest(pf.series),
                        fit(pf.fitter, pf.series, ts))

\* C23 as amended: the window reaches window_secs back from current_ts_ms,
\* the time the caller passes, not from the latest timestamp of the series:
\* fit returns no result whenever fewer than min_points points have a
\* timestamp at or after current_ts_ms - window_secs, and no result when
\* those points share one timestamp; a result has is_valid true exactly when
\* R2 >= min_r2.  When current_ts_ms is at or after the latest timestamp of
\* the series, the same holds for the window taken from the latest timestamp.
C23_FitWindowFromCurrent ==
    \A ts \in FitTimes :
        LET r == fit(pf.fitter, pf.series, ts)
        IN /\ FitContract(pf.fitter, pf.series, ts, r)
           /\ (pf.series # <<>> /\ ts >= Latest(pf.series)) =>
                  FitContract(pf.fitter, pf.series, Latest(pf.series), r)
           /\ r.some =>
                  /\ Len(InWindow(pf.series, ts, pf.fitter.window_ms)) >=
                         pf.fitter.min_points
                  /\ ~OneTimestamp(InWindow(pf.series, ts, pf.fitter.window_ms))

\* The last fit call found three points in its window, two of them in line
\* with the third off it, and returned R2 = 3/4, which is valid at min_r2 3/4;
\* the same fitter returns nothing for the first two of these points and for
\* three points on one timestamp
C23_Witness ==
    /\ pf.fitter = PriceFitter_new(2000, 3, <<3, 4>>)
    /\ pf.series = <<SomePoint(<<100, 1>>, 1000), SomePoint(<<100, 1>>, 2000),
                     SomePoint(<<101, 1>>, 3000)>>
    /\ pf.current_ts_ms = 3000
    /\ pf.res.some /\ pf.res.is_valid
    /\ pf.res.r_squared = <<3, 4>>
    /\ pf.res.slope = <<1, 2>>
    /\ ~fit(pf.fitter, SubSeq(pf.series, 1, 2), 3000).some
    /\ ~fit(pf.fitter, <<SomePoint(<<100, 1>>, 1000),
                         SomePoint(<<101, 1>>, 1000),
                         SomePoint(<<101, 1>>, 1000)>>, 1000).some

Qualifying(m, lookback_secs, current_sec) ==
    {k \in {m.history[i] : i \in DOMAIN m.history}
             \cup (IF m.current.some THEN {m.current} ELSE {}) :
        k.open_time >= current_sec - lookback_secs}

\* C25: find_max_impact_candle(lookback_secs, now_sec) returns a candle of
\* the history or the current candle with open_time >= now_sec -
\* lookback_secs whose |close - open| is the largest among all such candles,
\* returns nothing when there is none, and changes nothing in the manager.
C25_MaxImpactCandle ==
    /\ [](\A lookback_secs \in Lookbacks, current_sec \in KlineSecs :
            LET q == Qualifying(kl.mgr, lookback_secs, current_sec)
                r == find_max_impact_candle(kl.mgr, lookback_secs, current_sec)
            IN IF q = {} THEN r = NoKline
               ELSE /\ r \in q
                    /\ \A k \in q :
                         Abs(k.close - k.open) <= Abs(r.close - r.open))
    /\ [][kl'.lookup # kl.lookup => kl'.mgr = kl.mgr]_vars

\* The last call returned a candle of the history with a larger body than
\* the current candle, which qualifies too, while a candle of the history
\* with as large a body is outside the lookback
C25_Witness ==
    /\ kl.lookup.ret.some
    /\ kl.lookup.ret # kl.mgr.current
    /\ kl.lookup.ret = find_max_impact_candle(kl.mgr, kl.lookup.lookback_secs,
                                               kl.lookup.current_sec)
    /\ kl.mgr.current.some
    /\ kl.mgr.current.open_time >=
           kl.lookup.current_sec - kl.lookup.lookback_secs
    /\ Abs(change(kl.mgr.current)) < Abs(change(kl.lookup.ret))
    /\ \E i \in DOMAIN kl.mgr.history :
         /\ kl.mgr.history[i].open_time <
                kl.lookup.current_sec - kl.lookup.lookback_secs
         /\ Abs(change(kl.mgr.history[i])) >= Abs(change(kl.lookup.ret))

(***************************************************************************)
(* Properties of VolatilityStats                                           *)
(***************************************************************************)
\* The bucket of the code (counted from 0) a sample belongs to
BucketOf(h, v) == Min2(v \div h.step, Len(h.buckets) - 1)

\* How many of the samples belong to bucket i (counted from 0)
Belonging(h, samples, i) ==
    Len(SelectSeq(samples, LAMBDA v : BucketOf(h, v) = i))

\* What record owes for a sample v: no panic, one more in the counter at
\* index min(floor(v / step), bucket_count - 1), which is inside the bucket
\* array, and every other counter as it was
RecordContract(h, v) ==
    LET idx == Min2(v \div h.step, Len(h.buckets) - 1)
        r == record(h, v)
    IN /\ ~r.panicked
       /\ idx \in 0..(Len(h.buckets) - 1)
       /\ DOMAIN r.stats.buckets = DOMAIN h.buckets
       /\ \A i \in 0..(Len(h.buckets) - 1) :
            r.stats.buckets[i + 1] =
                h.buckets[i + 1] + (IF i = idx THEN 1 ELSE 0)
       /\ r.stats.count = h.count + 1
       /\ r.stats.step = h.step

\* C26: record(vol) increments exactly one counter, the one at index
\* min(floor(vol / step), bucket_count - 1), and never indexes outside the
\* bucket array; with step 0.01 and 10 buckets a sample of 0.50 goes to
\* index 9.
C26_RecordClamps ==
    /\ ~hs.panicked => \A v \in StatsVols : RecordContract(hs.stats, v)
    /\ record(VolatilityStats_new(100, 10), 5000).stats.buckets =
           [i \in 1..10 |-> IF i = 10 THEN 1 ELSE 0]

\* The part of C26 that holds: the same for statistics with at least one
\* bucket, where every counter is the number of samples recorded for it.
C26_RecordClampsWithBuckets ==
    /\ Len(hs.stats.buckets) >= 1 =>
         /\ ~hs.panicked
         /\ \A v \in StatsVols : RecordContract(hs.stats, v)
         /\ \A i \in 0..(Len(hs.stats.buckets) - 1) :
              hs.stats.buckets[i + 1] = Belonging(hs.stats, hs.recorded, i)
    /\ record(VolatilityStats_new(100, 10), 5000).stats.buckets =
           [i \in 1..10 |-> IF i = 10 THEN 1 ELSE 0]

\* With step 0.01 and 10 buckets the samples 0.50 and 0.025 have been
\* recorded: one in bucket 9, one in bucket 2
C26_Witness ==
    /\ hs.stats.step = 100
    /\ hs.recorded = <<5000, 250>>
    /\ hs.stats.buckets = [i \in 1..10 |-> IF i \in {3, 10} THEN 1 ELSE 0]

\* C27: a reporting cycle leaves every bucket counter and the sample count at
\* zero, and its report counts exactly the samples recorded since the cycle
\* before it: at any time the counters hold only the samples recorded since
\* the last report.
C27_ReportResets ==
    /\ [](~hs.panicked =>
          /\ hs.stats.count = Len(hs.recorded)
          /\ \A i \in 0..(Len(hs.stats.buckets) - 1) :
               hs.stats.buckets[i + 1] = Belonging(hs.stats, hs.recorded, i)
          /\ LET c == ReportCycle(hs.stats)
             IN /\ c.stats.count = 0
                /\ \A i \in DOMAIN c.stats.buckets : c.stats.buckets[i] = 0
                /\ DOMAIN c.stats.buckets = DOMAIN hs.stats.buckets
                /\ c.stats.step = hs.stats.step
                /\ c.report.total = Len(hs.recorded)
                /\ \A j \in DOMAIN c.report.lines :
                     c.report.lines[j][2] =
                         Belonging(hs.stats, hs.recorded, c.report.lines[j][1]))
    /\ [][hs'.report # hs.report =>
            /\ hs'.stats.count = 0
            /\ \A i \in DOMAIN hs'.stats.buckets : hs'.stats.buckets[i] = 0
            /\ hs'.report.total = Len(hs.recorded)]_vars

\* A report of two samples has been generated and one sample recorded since
C27_Witness ==
    /\ hs.report.generated
    /\ hs.report.total = 2
    /\ hs.recorded = <<5000>>
    /\ hs.stats.count = 1

(***************************************************************************)
(* Properties of TelemetryServer                                           *)
(***************************************************************************)
Range(q) == {q[i] : i \in 1..Len(q)}

\* C28: a packet handed to send while the server is disabled or no receiver
\* is alive is not serialized, is not stored in the channel, and is never
\* taken from the channel or forwarded by any connection task, whenever
\* that task subscribes.
C28_NoWorkWithoutSubscribers ==
    /\ tel.skipped \cap tel.serialized = {}
    /\ tel.skipped \cap Range(tel.tx.log) = {}
    /\ tel.packet \notin tel.skipped
    /\ \A c \in Conns :
         /\ tel.conns[c].msg \notin tel.skipped
         /\ tel.skipped \cap Range(tel.conns[c].forwarded) = {}

\* An enabled server skipped a packet for want of receivers, and a task
\* that subscribed afterwards has forwarded a later packet
C28_Witness ==
    /\ tel.enabled
    /\ \E c \in Conns :
         /\ tel.conns[c].forwarded # <<>>
         /\ \E id \in tel.skipped : id < tel.conns[c].forwarded[1]

\* C29 as stated: whenever the producer has a packet to send its step is
\* enabled, whatever the connection tasks are doing, and the channel holds
\* at most the requested capacity of unread values.
C29_RetainsRequestedCapacity ==
    /\ (tel.pc = "publish" \/ tel.calls < MaxSends) => ENABLED (Send \/ Publish)
    /\ Cardinality(Retained(tel)) <= ChannelCapacity

\* C29, amended: whenever the producer has a packet to send its step is
\* enabled, whatever the connection tasks are doing, and the channel holds
\* at most the requested capacity rounded up to a power of two.
C29_SendNeverWaits ==
    /\ (tel.pc = "publish" \/ tel.calls < MaxSends) => ENABLED (Send \/ Publish)
    /\ Cardinality(Retained(tel)) <= next_power_of_two(ChannelCapacity)

\* A task is stalled on its socket, more packets than the requested
\* capacity were stored since it last read, and the producer can send
C29_Witness ==
    /\ tel.calls < MaxSends
    /\ ENABLED Send
    /\ \E c \in Conns :
         /\ tel.conns[c].pc = "socket"
         /\ tel.tx.pos - tel.conns[c].next > ChannelCapacity

\* The values stored in the channel since connection task c subscribed
SentSince(t, c) == SubSeq(t.tx.log, t.conns[c].sub_at + 1, Len(t.tx.log))

\* What the cursor of connection task c has passed: forwarded values and
\* the one on its way to the socket
Taken(t, c) ==
    IF t.conns[c].pc = "socket"
    THEN Append(t.conns[c].forwarded, t.conns[c].msg)
    ELSE t.conns[c].forwarded

\* q has no duplicate and lists values of log in the order of log
OrderedSubsequence(q, log) ==
    /\ \A i \in 1..Len(q) : \E j \in 1..Len(log) : log[j] = q[i]
    /\ \A i, j \in 1..Len(q) :
         i < j => \E a, b \in 1..Len(log) :
                    a < b /\ log[a] = q[i] /\ log[b] = q[j]

\* C30: a receiver whose cursor is older than the oldest value of the ring
\* is told Lagged, its cursor moves to that oldest value, and its task goes
\* on receiving, still counted as a receiver; nothing the ring still holds
\* is passed over.  What a task has forwarded is always a duplicate-free
\* subsequence, in send order, of the values stored since it subscribed,
\* and all of them as long as it has not lagged.
C30_LagSkipsOldest ==
    /\ [](\A c \in Conns :
            /\ OrderedSubsequence(Taken(tel, c), SentSince(tel, c))
            /\ (tel.conns[c].pc \in {"recv", "socket"} /\ ~tel.conns[c].lagged)
                 => Taken(tel, c) = SubSeq(tel.tx.log, tel.conns[c].sub_at + 1,
                                           tel.conns[c].next))
    /\ [][\A c \in Conns :
            (/\ tel.conns[c].pc = "recv"
             /\ tel.conns[c].next < Oldest(tel.tx)
             /\ tel'.conns[c] # tel.conns[c])
            => /\ tel'.conns[c].next = Oldest(tel.tx)
               /\ tel'.conns[c].lagged
               /\ tel'.conns[c].pc = "recv"
               /\ tel'.conns[c].forwarded = tel.conns[c].forwarded
               /\ tel'.tx = tel.tx]_vars

\* A task forwarded a packet, lagged, and went on to forward a packet
\* stored after the ones it lost
C30_Witness ==
    \E c \in Conns :
        /\ tel.conns[c].lagged
        /\ \E i \in 1..(Len(tel.conns[c].forwarded) - 1) :
             tel.conns[c].forwarded[i + 1] > tel.conns[c].forwarded[i] + 1

\* Connection task c has subscribed and the channel has stored a k-th value
\* since
Owed(c, k) ==
    /\ tel.conns[c].pc \in {"recv", "socket"}
    /\ tel.conns[c].sub_at + k <= Len(tel.tx.log)

\* C31: when connection task FairConn keeps running, every value stored in
\* the channel since it subscribed is eventually forwarded by it, unless it
\* lagged or its socket failed, and whatever the other connection tasks do:
\* they may be stalled, lagging or gone.  The values are forwarded in the
\* order stored.
C31_IndependentCursors ==
    /\ \A k \in 1..MaxSends :
         Owed(FairConn, k) ~>
           \/ tel.conns[FairConn].lagged
           \/ tel.conns[FairConn].pc = "closed"
           \/ /\ Len(tel.conns[FairConn].forwarded) >= k
              /\ tel.conns[FairConn].forwarded[k]
                   = tel.tx.log[tel.conns[FairConn].sub_at + k]
    /\ [](~tel.conns[FairConn].lagged
            => \A k \in 1..Len(tel.conns[FairConn].forwarded) :
                 tel.conns[FairConn].forwarded[k]
                   = tel.tx.log[tel.conns[FairConn].sub_at + k])

\* Connection task FairConn has forwarded three values without lagging
\* while the other task, subscribed before the first of them was stored,
\* is stalled and has lagged, or has gone
C31_Witness ==
    /\ ~tel.conns[FairConn].lagged
    /\ Len(tel.conns[FairConn].forwarded) >= 3
    /\ \E d \in Conns \ {FairConn} :
         /\ tel.conns[d].sub_at <= tel.conns[FairConn].sub_at
         /\ tel.conns[d].pc \in {"recv", "socket", "closed"}
         /\ Len(tel.conns[d].forwarded) < 2

\* The connection tasks inside the recv loop
Subscribers(t) == {c \in Conns : t.conns[c].pc \in {"recv", "socket"}}

\* C40: the receivers the channel counts are the connection tasks inside
\* the recv loop.  A task ends only by a failed handshake, before it has
\* subscribed, or by a failed socket write, after which it is no longer
\* counted; a task that is told Lagged stays in the loop.  A send call made
\* when every subscriber has gone serializes and stores nothing.
C40_TaskTermination ==
    /\ [](receiver_count(tel.tx) = Cardinality(Subscribers(tel)))
    /\ [][\A c \in Conns :
            /\ (tel.conns[c].pc # "closed" /\ tel'.conns[c].pc = "closed")
                 => \/ /\ tel.conns[c].pc = "handshake"
                       /\ tel'.tx = tel.tx
                    \/ /\ tel.conns[c].pc = "socket"
                       /\ receiver_count(tel'.tx) = receiver_count(tel.tx) - 1
            /\ (tel.conns[c].pc = "recv" /\ tel.conns[c].next < Oldest(tel.tx))
                 => tel'.conns[c].pc # "closed"
            /\ tel.conns[c].pc = "closed" => tel'.conns[c] = tel.conns[c]]_vars
    /\ [][(tel'.calls # tel.calls /\ Subscribers(tel) = {})
            => /\ tel'.serialized = tel.serialized
               /\ tel'.tx = tel.tx
               /\ tel'.pc = "idle"]_vars

\* One task ended on a failed socket write after forwarding a packet, the
\* other on a failed handshake; no receiver is left and a later packet was
\* skipped by send
C40_Witness ==
    /\ receiver_count(tel.tx) = 0
    /\ \E c, d \in Conns :
         /\ tel.conns[c].pc = "closed"
         /\ tel.conns[c].forwarded # <<>>
         /\ \E id \in tel.skipped :
              id > tel.conns[c].forwarded[Len(tel.conns[c].forwarded)]
         /\ tel.conns[d].pc = "closed"
         /\ tel.conns[d].sub_at = 0
         /\ tel.conns[d].forwarded = <<>>
         /\ d # c

(***************************************************************************)
(* Properties of VwapCalculator: accounting of trades                      *)
(***************************************************************************)
\* Trade x is accounted for by the call that turned v into r.vw: it joined
\* the accumulators, or it is alone in the accumulators of a new window and
\* what the accumulators held went into the returned point (or summed to no
\* quantity)
Accounted(v, x, r) ==
    /\ ~r.panicked
    /\ \/ /\ r.vw.sum_pq = v.sum_pq + x[1] * x[2]
          /\ r.vw.sum_q = v.sum_q + x[2]
          /\ r.ret = NoPoint
       \/ /\ r.vw.sum_pq = x[1] * x[2]
          /\ r.vw.sum_q = x[2]
          /\ IF v.sum_q > 0
             THEN r.ret = SomePoint(Quot(v.sum_pq, v.sum_q), v.last_ts_ms)
             ELSE r.ret = NoPoint

\* C35: the accumulators of the open window are the sums over the trades
\* received since the window started, and every trade, whatever its
\* timestamp, joins the accumulators or starts a window after the previous
\* accumulators went into a flushed point: no trade is dropped.
C35_TradesAccounted ==
    ~vwg.panicked =>
        /\ vw.sum_pq = SumPQ(vwg.window)
        /\ vw.sum_q = SumQ(vwg.window)
        /\ \A x \in VwapTrades :
             Accounted(vw, x, VwapCalculator_add_trade(vw, x[1], x[2], x[3],
                                                       vwg.overflow_checks))

\* The part of C35 that holds: the same, as long as every trade has a
\* positive timestamp that is not before the start of the window open when
\* it arrives.
C35_OrderlyTradesAccounted ==
    (~vwg.panicked /\ vwg.orderly) =>
        /\ vw.sum_pq = SumPQ(vwg.window)
        /\ vw.sum_q = SumQ(vwg.window)
        /\ \A x \in VwapTrades :
             Orderly(vwg.window, x) =>
               Accounted(vw, x, VwapCalculator_add_trade(vw, x[1], x[2], x[3],
                                                         vwg.overflow_checks))

\* Two orderly trades are in the accumulators of the open window, after a
\* window that was flushed
C35_Witness ==
    /\ vwg.orderly
    /\ Len(vwg.window) = 2
    /\ vwg.flushed # <<>>
    /\ vw.sum_q = SumQ(vwg.window)
    /\ vw.sum_q > 0

(***************************************************************************)
(* Properties of TrendStateMachine: calls without a fit in Holding         *)
(***************************************************************************)
\* C36: in Holding, update changes no field when no fit is supplied,
\* whatever the time, the OFI and the latest price; a supplied fit is
\* processed whether or not it is valid: the call either exits to Cooldown
\* or stays in Holding with the slope appended to the history, and does
\* exactly what it does for the valid fit with the same slope.
C36_HoldingWithoutFit ==
    tsm.state = "Holding" =>
      \A t \in Times, o \in Ofis, p \in LatestPrices :
         /\ TrendStateMachine_update(tsm, t, NoFit, o, p) = tsm
         /\ \A s \in Slopes :
              LET r == TrendStateMachine_update(tsm, t, SomeFit(s, FALSE), o, p)
              IN /\ r = TrendStateMachine_update(tsm, t, SomeFit(s, TRUE), o, p)
                 /\ \/ /\ r.state = "Cooldown"
                       /\ r.cooldown_start_ts = t
                       /\ r.slope_history = <<>>
                    \/ r = [tsm EXCEPT !.slope_history =
                                          push_slope(tsm.slope_history, s)]

\* A Holding machine past its protection period for which one call with a
\* fit that is not valid exits on the price, another such call only appends
\* its slope, and the call with the same time and price but no fit changes
\* nothing
C36_Witness ==
    /\ tsm.state = "Holding"
    /\ \E t \in Times, o \in Ofis, p \in LatestPrices, s \in Slopes :
         /\ t - tsm.entry_ts_sec >= tsm.entry_protection_secs
         /\ should_exit(tsm, t - tsm.entry_ts_sec, p)
         /\ TrendStateMachine_update(tsm, t, SomeFit(s, FALSE), o, p).state
              = "Cooldown"
         /\ TrendStateMachine_update(tsm, t, NoFit, o, p) = tsm
    /\ \E t \in Times, o \in Ofis, p \in LatestPrices, s \in Slopes :
         TrendStateMachine_update(tsm, t, SomeFit(s, FALSE), o, p).slope_history
           = Append(tsm.slope_history, s)

(***************************************************************************)
(* Properties of VolatilityStats: counters and report                      *)
(***************************************************************************)
RECURSIVE SumBuckets(_)
SumBuckets(b) == IF b = <<>> THEN 0 ELSE Head(b) + SumBuckets(Tail(b))

\* The buckets with a count
NonEmpty(h) == {i \in 0..(Len(h.buckets) - 1) : h.buckets[i + 1] > 0}

\* The counters add up to the count and the report has one line for each
\* non-empty bucket, in index order, with its count
CountersAndLines(h) ==
    /\ SumBuckets(h.buckets) = h.count
    /\ {l[1] : l \in Range(generate_report(h).lines)} = NonEmpty(h)
    /\ Len(generate_report(h).lines) = Cardinality(NonEmpty(h))
    /\ \A j \in 1..Len(generate_report(h).lines) :
         /\ generate_report(h).lines[j][2] = h.buckets[generate_report(h).lines[j][1] + 1]
         /\ j > 1 => generate_report(h).lines[j - 1][1] < generate_report(h).lines[j][1]
    /\ generate_report(h).total = h.count

\* C37 as stated: with at least one bucket and after any record calls, the
\* counters add up to the count, the report lists exactly the non-empty
\* buckets, and it reports the number of the other buckets as hidden.
C37_ReportHidesEmptyBuckets ==
    (Len(hs.stats.buckets) >= 1 /\ ~hs.panicked) =>
        /\ CountersAndLines(hs.stats)
        /\ generate_report(hs.stats).hidden
             = Len(hs.stats.buckets) - Cardinality(NonEmpty(hs.stats))

\* C37, amended: with at least one bucket and after any record calls, the
\* counters add up to the count and the report lists exactly the non-empty
\* buckets; once a sample has been recorded it reports the number of the
\* other buckets as hidden (leaving the footer out when there is none), and
\* with no sample it has the no-data line and no footer.  generate_report
\* takes the statistics by shared reference and returns a string: the
\* counters and the count are the same after the call.
C37_CountersSumToCount ==
    (Len(hs.stats.buckets) >= 1 /\ ~hs.panicked) =>
        /\ CountersAndLines(hs.stats)
        /\ generate_report(hs.stats).no_data <=> hs.stats.count = 0
        /\ generate_report(hs.stats).hidden
             = IF hs.stats.count = 0 THEN 0
               ELSE Len(hs.stats.buckets) - Cardinality(NonEmpty(hs.stats))

\* Three samples recorded, two in one bucket and one in the last of ten
\* buckets: the report has two lines and hides eight buckets
C37_Witness ==
    /\ Len(hs.stats.buckets) = 10
    /\ hs.stats.count = 3
    /\ hs.stats.buckets[10] = 1
    /\ Len(generate_report(hs.stats).lines) = 2
    /\ generate_report(hs.stats).hidden = 8

(***************************************************************************)
(* Properties of DepthCalculator.update_depth: traded quantity by side     *)
(***************************************************************************)
\* The flow of one side as documented: over the levels of the previous
\* book, the current book and the trades that consumed that side, the
\* weighted sum of (curr_qty - prev_qty) + traded_qty
SideFlow(prev_book, curr_book, consumed, mid_price2) ==
    LET levels == DOMAIN prev_book \cup DOMAIN curr_book \cup DOMAIN consumed
    IN SumF([k \in levels |->
               ((MapGet(curr_book, k) - MapGet(prev_book, k))
                   + MapGet(consumed, k))
                 * ExpWeight(Abs(2 * (k \div 100) - mid_price2))],
            levels)

\* C34: on a call that returns an OFI value, the quantity of the attributed
\* trades with is_buyer_maker = true is the traded quantity of the bid
\* side and that of the trades with is_buyer_maker = false the traded
\* quantity of the ask side, so that raw_ofi is the bid flow less the ask
\* flow so computed; in particular a bid level that fell by exactly the
\* quantity traded against it, nothing else changing, gives a raw OFI of 0.
C34_ConsumedSideCancels ==
    \A id \in 0..MaxUpdateId, t \in DepthTimes, bk \in Books :
       LET r == update_depth(dc, id, t, bk[1], bk[2])
       IN r.ret.some =>
            r.ret.raw_ofi
              = SideFlow(dc.prev_bids, BookMap(bk[1]), r.att.bids,
                         r.ret.mid_price2)
                - SideFlow(dc.prev_asks, BookMap(bk[2]), r.att.asks,
                           r.ret.mid_price2)

\* The part of C34 that holds: the same on the calls that attribute no
\* trade.
C34_FlowWithoutTrades ==
    \A id \in 0..MaxUpdateId, t \in DepthTimes, bk \in Books :
       LET r == update_depth(dc, id, t, bk[1], bk[2])
       IN (r.ret.some /\ r.att.bids = <<>> /\ r.att.asks = <<>>) =>
            r.ret.raw_ofi
              = SideFlow(dc.prev_bids, BookMap(bk[1]), <<>>, r.ret.mid_price2)
                - SideFlow(dc.prev_asks, BookMap(bk[2]), <<>>,
                           r.ret.mid_price2)

\* An engine past its warm-up with 2 units bid at 100 and a buffered trade
\* of 1 unit at 100 against the resting bid
C34_Witness ==
    /\ dc.prev_bids # <<>>
    /\ MapGet(dc.prev_bids, price_key(100)) = 2
    /\ \E i \in 1..Len(dc.trade_buffer) :
         /\ dc.trade_buffer[i][4]
         /\ dc.trade_buffer[i][1] > dc.last_depth_ts_ms

\* C39: a trade that leaves the volatility engine short of a full buffer, or
\* whose reading is stale (the fallback value), records nothing in the
\* histogram and starts no volatility alert, whatever the trades and the
\* silence before it.
C39_OnlyFullFreshReadingsRecorded ==
    \A x \in ConnTrades :
      LET before == report_if_due(rc.loc, now_ms, MonitorConfig).loc
          r == on_trade(rc.loc, vol, now_ms, MonitorConfig, x)
          reading == get_volatility(r.vol, now_ms)
      IN (rc.connected /\ (~is_ready(r.vol) \/ reading.is_stale))
           => /\ r.loc.stats = before.stats
              /\ r.loc.last_alert_time = before.last_alert_time
              /\ ~r.out.vol_alert

\* A connection whose histogram holds a reading receives a trade that leaves
\* the buffer full and the reading stale, the fallback being over the
\* alert threshold
C39_Witness ==
    /\ rc.connected
    /\ rc.loc.stats.count > 0
    /\ \E x \in ConnTrades :
         LET r == on_trade(rc.loc, vol, now_ms, MonitorConfig, x)
         IN /\ ~r.out.err
            /\ is_ready(r.vol)
            /\ get_volatility(r.vol, now_ms).is_stale
            /\ get_volatility(r.vol, now_ms).annualized
                 >= MonitorConfig.threshold * 10000

\* C32: when main calls run_connection again after a disconnect, the
\* volatility buffer, the trend window and its accumulators, the candle
\* history, the histogram counters and the alert-cooldown timestamps hold
\* what they held when the previous connection ended.
C32_ReconnectKeepsState ==
    [][(~rc.connected /\ rc'.connected /\ rc.returned.some)
         => /\ vol' = vol
            /\ rc'.loc.trend_calc = rc.loc.trend_calc
            /\ rc'.loc.current_kline = rc.loc.current_kline
            /\ rc'.loc.kline_history = rc.loc.kline_history
            /\ rc'.loc.stats = rc.loc.stats
            /\ rc'.loc.last_alert_time = rc.loc.last_alert_time
            /\ rc'.loc.last_trend_alert_time = rc.loc.last_trend_alert_time]_vars

\* The part that holds: the volatility buffer, which main owns, is the same
\* when the next connection starts as when the previous one ended
C32_ReconnectKeepsVolatilityBuffer ==
    [][(~rc.connected /\ rc'.connected) => vol' = vol]_vars

\* A connection has ended with trades in the trend window, a candle, a
\* recorded reading and both cooldown timestamps set
C32_Witness ==
    /\ ~rc.connected
    /\ rc.returned.some
    /\ rc.loc.trend_calc.trades # <<>>
    /\ rc.loc.current_kline.some
    /\ rc.loc.stats.count > 0
    /\ rc.loc.last_alert_time.some
    /\ rc.loc.last_trend_alert_time.some
    /\ vol.prices # <<>>

\* The state in which the monitor takes up the next event after a turn of
\* the loop for trade x: the locals and the engine as the turn left them, or,
\* when the turn made run_connection return, as the next call sets them up
Resumed(x, later) ==
    LET r == on_trade(rc.loc, vol, now_ms, MonitorConfig, x)
    IN IF r.out.err
       THEN [loc |-> run_connection_entry([rc EXCEPT !.loc = r.loc],
                                          MonitorConfig, later).loc,
             vol |-> r.vol]
       ELSE [loc |-> r.loc, vol |-> r.vol]

\* The fields of the locals the claim lists
Indicators(loc) ==
    <<loc.trend_calc, loc.current_kline, loc.kline_history, loc.stats>>

\* The trades whose price or quantity is not numeric
BadTrades == {x \in ConnTrades : ~ParseF64(x[1]).ok \/ ~ParseF64(x[2]).ok}

\* C33: a trade whose price or quantity is not numeric yields an error and
\* mutates no indicator state: the trend window, the candle state, the
\* volatility buffer and the histogram are the same when the next event is
\* processed as before the failed one.
C33_BadTradeMutatesNothing ==
    \A x \in BadTrades :
      rc.connected
        => /\ on_trade(rc.loc, vol, now_ms, MonitorConfig, x).out.err
           /\ \A later \in Nows :
                later >= now_ms + ReconnectDelayMs
                  => /\ Resumed(x, later).vol = vol
                     /\ Indicators(Resumed(x, later).loc) = Indicators(rc.loc)

\* The part that holds: the failing turn itself yields the error before it
\* touches the trend window, the candle state or the volatility buffer, and
\* changes the histogram only by the periodic report that precedes the message
C33_BadTradeFailsBeforeUpdates ==
    \A x \in BadTrades :
      LET r == on_trade(rc.loc, vol, now_ms, MonitorConfig, x)
      IN rc.connected
           => /\ r.out.err
              /\ r.vol = vol
              /\ r.loc = report_if_due(rc.loc, now_ms, MonitorConfig).loc
              /\ ~r.out.recorded /\ ~r.out.vol_alert /\ ~r.out.trend_alert

\* A connection with a trade in the trend window, a candle and a recorded
\* reading, and no report due
C33_Witness ==
    /\ rc.connected
    /\ rc.loc.trend_calc.trades # <<>>
    /\ rc.loc.current_kline.some
    /\ rc.loc.stats.count > 0
    /\ report_if_due(rc.loc, now_ms, MonitorConfig).loc = rc.loc

\* Whether an alert at now keeps the cooldown after the alert last sent
Spaced(last, now) ==
    ~last.some \/ now - last.t >= MonitorConfig.cooldown_secs * 1000

\* C38: within one connection a volatility alert is dispatched only on a
\* trade for which the engine is ready, the result is not stale and
\* annualized >= threshold / 100; two volatility alerts are at least
\* cooldown_secs apart, and so are two trend alerts; each kind of alert is
\* held back by its own timer only.
C38_AlertsGatedAndSpaced ==
    \A x \in ConnTrades :
      LET r == on_trade(rc.loc, vol, now_ms, MonitorConfig, x)
          reading == get_volatility(r.vol, now_ms)
          over == /\ is_ready(r.vol)
                  /\ ~reading.is_stale
                  /\ reading.annualized >= MonitorConfig.threshold * 10000
      IN rc.connected
           => /\ r.out.vol_alert => over
              /\ r.out.vol_alert => Spaced(rc.sent.vol, now_ms)
              /\ r.out.trend_alert => Spaced(rc.sent.trend, now_ms)
              /\ ~r.out.err
                   => /\ r.out.vol_alert
                           = (over /\ Spaced(rc.sent.vol, now_ms))
                      /\ r.out.trend_alert
                           = (r.out.trend_state # "Neutral"
                                /\ Spaced(rc.sent.trend, now_ms))

\* A connection has sent an alert of each kind, and a trade arrives that
\* calls for both: the trend alert is sent, its cooldown being over, while
\* the volatility alert is held back by its own
C38_Witness ==
    /\ rc.connected
    /\ rc.sent.vol.some
    /\ rc.sent.trend.some
    /\ \E x \in ConnTrades :
         LET r == on_trade(rc.loc, vol, now_ms, MonitorConfig, x)
         IN /\ r.out.trend_alert
            /\ ~r.out.vol_alert
            /\ r.out.ready /\ ~r.out.stale
            /\ r.out.annualized >= MonitorConfig.threshold * 10000

====
